---- MODULE Spec2Model ----
(***************************************************************************)
(* Model of the conversation scheduler (src/src/conversation/manager.ts)   *)
(* and of the message ledger (src/src/conversation/history.ts).            *)
(*                                                                         *)
(* JavaScript runs one task at a time: the code between two awaits is one  *)
(* atomic step.  A call of startConversation is a frame (calls[i]) that    *)
(* is suspended at one of three awaits: the connectivity check, the        *)
(* generation call, the inter-turn sleep.  Each action below resumes one   *)
(* frame and runs it to its next await.                                    *)
(***************************************************************************)
EXTENDS Integers, Sequences, FiniteSets, TLC

VARIABLES
    history,          \* ConversationHistoryManager.history
    maxMessages,      \* ConversationHistoryManager.maxMessages
    maxContextWindow, \* ConversationHistoryManager.maxContextWindow
    state,            \* ConversationManager.state
    isRunning,        \* ConversationManager.isRunning
    calls,            \* the startConversation calls and the await each is at
    signals,          \* the events emitted and the stop requests logged, in order
    now,              \* the clock read by new Date()
    nextId,           \* the source of fresh message ids (randomUUID)
    idsAtClear,       \* the ids handed out before the ledger was last cleared
    result,           \* what the step just taken returned to its caller, if
                      \* it was a read; the caller holds it until the next
                      \* call or tick
    personas,         \* PersonaManager.personas, in the Map's insertion order
    seen              \* what a listener reads from the scheduler at the time
                      \* of each entry of signals

vars == <<history, maxMessages, maxContextWindow, state, isRunning, calls,
          signals, now, nextId, idsAtClear, result, personas, seen>>

----------------------------------------------------------------------------
(* Bounds of the model *)

\* startConversation calls made on one scheduler
MaxCalls == 2
\* largest maxTurns given in the configuration or in the start options
MaxTurnOpt == 2
\* generation calls issued on one scheduler
MaxAttempts == 3
\* stopConversation calls
MaxStops == 1
\* largest retention limit of a ledger built on its own
MaxRetain == 2
\* addMessage calls on a ledger built on its own
MaxAppends == 4
\* largest clock value
MaxClock == 2

(* Program constants and configuration *)

\* the retention limit the scheduler builds its ledger with
ManagerMaxMessages == 1000
\* config.conversation.contextWindow
ConfigContextWindow == 2
\* the largest context window a ledger is built with
MaxWindow == 3
\* the largest count asked of getLastMessages, and the most negative
MaxCount == 3
\* the longest name, personality or speaking style given to validatePersona
MaxFieldLen == 2
\* the longest message slice given to the analytics
MaxSlice == 3
\* the largest keepRecentCount given to compactContext
MaxKeep == 3
\* the longest message slice given to generateStatistics
MaxFlow == 5
\* the most whole hours in a duration given to the formatters
MaxHours == 1
\* the generation calls a conversation without failures is followed for
MaxLongRun == 12
\* the larger of the two context window sizes of such a conversation
MaxLongWindow == 12

NoTime == -1
NoTurn == -1
NoTopic == ""
\* options without maxTurns
NoMaxTurns == -1
NoPersona == "none"
\* no value held by a caller
NoResult == [op |-> "none"]
\* the registry where no step reads it
NoRegistry == <<>>

\* config.personas.primary.name, config.personas.secondary.name
PersonaName(key) == IF key = "primary" THEN "Alice" ELSE "Bob"

Speakers == {"User", "Alice", "Bob"}
Contents == {"", "hi"}
Topics == {NoTopic, "art"}
\* what the generation backend may do with one call
Outcomes == {"ok", "error", "CRITICAL"}

----------------------------------------------------------------------------
(* The ledger: ConversationHistoryManager *)

Min(a, b) == IF a < b THEN a ELSE b
Max(a, b) == IF a > b THEN a ELSE b

\* Array.prototype.slice(start) for 0 <= start: empty when start >= length
SliceFrom(seq, start) == SubSeq(seq, start + 1, Len(seq))

\* the constructor's history record
NewHistory(topic, t) ==
    [messages |-> <<>>, startTime |-> t, endTime |-> NoTime,
     totalMessages |-> 0, topic |-> topic]

NewMessage(id, personaName, content, t, turn) ==
    [id |-> id, personaName |-> personaName, content |-> content,
     timestamp |-> t, turn |-> turn]

\* splice(0, length - maxMessages) when length > maxMessages
TrimTail(msgs, limit) ==
    IF Len(msgs) > limit THEN SubSeq(msgs, 1, limit) ELSE msgs
TrimOneLess(msgs, limit) ==
    IF Len(msgs) > limit + 1 THEN SliceFrom(msgs, Len(msgs) - limit) ELSE msgs
Trim(msgs, limit) ==
    IF Len(msgs) > limit THEN SliceFrom(msgs, Len(msgs) - limit) ELSE msgs

\* the push and the counter of addMessage
Push(h, msg) ==
    [h EXCEPT !.messages = Append(@, msg), !.totalMessages = @ + 1]

addMessage(h, limit, msg) ==
    LET pushed == Push(h, msg)
    IN  [pushed EXCEPT !.messages = Trim(@, limit)]

getMessages(h) == h.messages

getTotalMessages(h) == h.totalMessages

\* without Math.max: slice(start) with start < 0 counts from the end
getLastMessagesNoClamp(h, count) ==
    LET start == Len(h.messages) - count
    IN  SliceFrom(h.messages,
                  IF start < 0 THEN Max(Len(h.messages) + start, 0) ELSE start)
getLastMessages(h, count) ==
    SliceFrom(h.messages, Max(0, Len(h.messages) - count))

Render(msg) == msg.personaName \o ": " \o msg.content

getContextWindowNewestFirst(h, window) ==
    LET recent == getLastMessages(h, window)
    IN  [k \in 1..Len(recent) |-> Render(recent[Len(recent) + 1 - k])]
getContextWindow(h, window) ==
    LET recent == getLastMessages(h, window)
    IN  [k \in 1..Len(recent) |-> Render(recent[k])]

getConversationHistory(h) == h

historyEndConversationOnce(h, t) ==
    IF h.endTime = NoTime THEN [h EXCEPT !.endTime = t] ELSE h
historyEndConversation(h, t) == [h EXCEPT !.endTime = t]

setTopic(h, topic) == [h EXCEPT !.topic = topic]

clearKeepsEnd(h, t) ==
    [h EXCEPT !.messages = <<>>, !.totalMessages = 0, !.startTime = t]
clearCounterOnly(h, t) ==
    [h EXCEPT !.totalMessages = 0, !.startTime = t, !.endTime = NoTime]
clearKeepsStart(h, t) ==
    [h EXCEPT !.messages = <<>>, !.totalMessages = 0, !.endTime = NoTime]
clear(h, t) ==
    [h EXCEPT !.messages = <<>>, !.totalMessages = 0, !.startTime = t,
              !.endTime = NoTime]

\* (endTime || new Date()) - startTime
getDuration(h, t) ==
    (IF h.endTime # NoTime THEN h.endTime ELSE t) - h.startTime

RECURSIVE SumLengths(_)
SumLengths(msgs) ==
    IF msgs = <<>> THEN 0
    ELSE Len(msgs[1].content) + SumLengths(Tail(msgs))

\* a quotient of two integers, kept as the pair
Ratio(sum, n) == [sum |-> sum, over |-> n]

getMessageStatsRetainedTotal(h, t) ==
    LET msgs == h.messages
        names == {msgs[k].personaName : k \in 1..Len(msgs)}
    IN  [totalMessages |-> Len(msgs),
         messagesByPersona |->
             [p \in names |->
                 Cardinality({k \in 1..Len(msgs) : msgs[k].personaName = p})],
         averageMessageLength |->
             IF Len(msgs) > 0 THEN Ratio(SumLengths(msgs), Len(msgs))
             ELSE Ratio(0, 1),
         conversationDuration |-> getDuration(h, t)]
getMessageStats(h, t) ==
    LET msgs == h.messages
        names == {msgs[k].personaName : k \in 1..Len(msgs)}
    IN  [totalMessages |-> h.totalMessages,
         messagesByPersona |->
             [p \in names |->
                 Cardinality({k \in 1..Len(msgs) : msgs[k].personaName = p})],
         averageMessageLength |->
             IF Len(msgs) > 0 THEN Ratio(SumLengths(msgs), Len(msgs))
             ELSE Ratio(0, 1),
         conversationDuration |-> getDuration(h, t)]

\* a value handed to a caller: what it holds, and which objects of the
\* callee it is (the same array or record, not a copy of it)
Returned(op, value, aliases) ==
    [op |-> op, value |-> value, aliases |-> aliases]

\* Date.prototype.toJSON: the instant as a string
Iso(t) == <<"iso", t>>

\* JSON.stringify of one message: the Date becomes a string, an absent
\* metadata leaves no key
MessageToJSON(msg) ==
    LET base == [id |-> msg.id, personaName |-> msg.personaName,
                 content |-> msg.content, timestamp |-> Iso(msg.timestamp)]
    IN  IF msg.turn = NoTurn THEN base
        ELSE [id |-> msg.id, personaName |-> msg.personaName,
              content |-> msg.content, timestamp |-> Iso(msg.timestamp),
              metadata |-> [turn |-> msg.turn]]

\* the object exportToJSON builds before it is serialized
exportDataRetainedCount(h, t) ==
    [h EXCEPT !.endTime = IF h.endTime # NoTime THEN h.endTime ELSE t,
              !.totalMessages = Len(h.messages)]
exportData(h, t) ==
    [h EXCEPT !.endTime = IF h.endTime # NoTime THEN h.endTime ELSE t]

\* JSON.stringify(exportData): the text, kept as the tree it spells; an
\* absent topic leaves no key
JSONStringify(data, stats) ==
    LET msgs == [k \in 1..Len(data.messages) |->
                    MessageToJSON(data.messages[k])]
    IN  [text |->
          IF data.topic = NoTopic
          THEN [messages |-> msgs, startTime |-> Iso(data.startTime),
                endTime |-> Iso(data.endTime),
                totalMessages |-> data.totalMessages, stats |-> stats]
          ELSE [messages |-> msgs, startTime |-> Iso(data.startTime),
                endTime |-> Iso(data.endTime),
                totalMessages |-> data.totalMessages, stats |-> stats,
                topic |-> data.topic]]

\* JSON.parse: the value a JSON text spells, a SyntaxError for any other
\* string
JSONParse(json) ==
    IF "text" \in DOMAIN json THEN json.text
    ELSE [thrown |-> "SyntaxError"]

\* the ledger after the call, and the string returned
exportToJSONStoresEnd(h, t) ==
    [history |-> exportData(h, t),
     out |-> JSONStringify(exportData(h, t), getMessageStats(h, t))]
exportToJSON(h, t) ==
    [history |-> h,
     out |-> JSONStringify(exportData(h, t), getMessageStats(h, t))]

\* formatDuration
formatDuration(ms) ==
    LET seconds == ms \div 1000
        minutes == seconds \div 60
        hours == minutes \div 60
    IN  IF hours > 0
        THEN ToString(hours) \o "h " \o ToString(minutes % 60) \o "m "
                 \o ToString(seconds % 60) \o "s"
        ELSE IF minutes > 0
        THEN ToString(minutes) \o "m " \o ToString(seconds % 60) \o "s"
        ELSE ToString(seconds) \o "s"

\* the ledger after the call, and the document returned, by its parts
exportToMarkdown(h, t) ==
    LET stats == getMessageStats(h, t)
    IN  [history |-> h,
         out |-> [topic |-> h.topic,
                  started |-> h.startTime,
                  duration |-> formatDuration(stats.conversationDuration),
                  total |-> stats.totalMessages,
                  participants |-> stats.messagesByPersona,
                  conversation |->
                      [k \in 1..Len(h.messages) |->
                          <<h.messages[k].personaName,
                            h.messages[k].timestamp,
                            h.messages[k].content>>]]]

\* [...this.history.messages]: a new array of the same message objects
getMessagesShared(h) ==
    Returned("getMessages", h.messages, {"messages", "elements"})
getMessagesCopy(h) == Returned("getMessages", getMessages(h), {"elements"})

----------------------------------------------------------------------------
(* The scheduler: ConversationManager *)

\* All that a step of a frame reads and writes, as one record.
Cur ==
    [history |-> history, state |-> state, isRunning |-> isRunning,
     calls |-> calls, signals |-> signals, nextId |-> nextId, seen |-> seen]

Commit(s) ==
    /\ history' = s.history
    /\ state' = s.state
    /\ isRunning' = s.isRunning
    /\ calls' = s.calls
    /\ signals' = s.signals
    /\ nextId' = s.nextId
    /\ seen' = s.seen

\* what a listener called by emit can read: getState() and the ledger
Observed(s) ==
    [isActive |-> s.state.isActive, currentTurn |-> s.state.currentTurn,
     endTime |-> s.history.endTime,
     totalMessages |-> getTotalMessages(s.history)]

\* EventEmitter.emit calls the listeners before it returns
emit(s, signal) ==
    [s EXCEPT !.signals = Append(@, signal),
              !.seen = Append(@, Observed(s))]

Frame(pc, persona) == [pc |-> pc, persona |-> persona]

\* context.join('\n')
RECURSIVE JoinLines(_)
JoinLines(lines) ==
    IF lines = <<>> THEN ""
    ELSE IF Len(lines) = 1 THEN lines[1]
    ELSE lines[1] \o "\n" \o JoinLines(Tail(lines))

\* the events of one type emitted so far
Count(log, type) == Cardinality({k \in 1..Len(log) : log[k][1] = type})

getCurrentPersona(s) == s.state.currentPersona

switchPersonaStuck(s) == s
switchPersona(s) ==
    [s EXCEPT !.state.currentPersona =
        IF @ = "primary" THEN "secondary" ELSE "primary"]

updateContext(s) ==
    [s EXCEPT !.state.context = getContextWindow(s.history, maxContextWindow),
              !.state.history = getConversationHistory(s.history)]

shouldStopLate(s) ==
    \/ s.state.maxTurns # 0 /\ s.state.currentTurn > s.state.maxTurns
    \/ ~s.isRunning
shouldStopConversation(s) ==
    \/ s.state.maxTurns # 0 /\ s.state.currentTurn >= s.state.maxTurns
    \/ ~s.isRunning

endConversationEmitsFirst(s, i) ==
    LET stats == getMessageStats(s.history, now)
        s1 == emit(s, <<"ended", stats.totalMessages>>)
        s2 == [s1 EXCEPT !.isRunning = FALSE, !.state.isActive = FALSE,
                         !.history = historyEndConversation(@, now)]
    IN  [s2 EXCEPT !.calls[i] = Frame("done", NoPersona)]
endConversationStaysActive(s, i) ==
    LET s1 == [s EXCEPT !.isRunning = FALSE,
                        !.history = historyEndConversation(@, now)]
        stats == getMessageStats(s1.history, now)
        s2 == emit(s1, <<"ended", stats.totalMessages>>)
    IN  [s2 EXCEPT !.calls[i] = Frame("done", NoPersona)]
endConversation(s, i) ==
    LET s1 == [s EXCEPT !.isRunning = FALSE, !.state.isActive = FALSE,
                        !.history = historyEndConversation(@, now)]
        stats == getMessageStats(s1.history, now)
        s2 == emit(s1, <<"ended", stats.totalMessages>>)
    IN  [s2 EXCEPT !.calls[i] = Frame("done", NoPersona)]

\* the entries of the context window the prompt quotes
PromptEntries == 10

buildConversationPrompt(s, conversationContext, persona) ==
    (IF s.history.topic # NoTopic
     THEN "The conversation topic is: " \o s.history.topic \o "\n\n"
     ELSE "")
        \o "Recent conversation:\n" \o conversationContext \o "\n\n"
        \o "Please respond as " \o PersonaName(persona)
        \o ", continuing this conversation naturally. "
        \o "Stay true to your character and speaking style."

generatePersonaResponseWholeWindow(s, persona) ==
    LET context == getContextWindow(s.history, maxContextWindow)
        conversationContext == JoinLines(context)
    IN  [prompt |-> buildConversationPrompt(s, conversationContext, persona),
         context |-> context]
\* generatePersonaResponse up to its await: the arguments of the
\* generation call
generatePersonaResponse(s, persona) ==
    LET context == getContextWindow(s.history, maxContextWindow)
        conversationContext ==
            JoinLines(SubSeq(context,
                             Max(Len(context) - PromptEntries, 0) + 1,
                             Len(context)))
    IN  [prompt |-> buildConversationPrompt(s, conversationContext, persona),
         context |-> context]

\* the frame of a call that awaits the backend
Calling(persona, request) ==
    [pc |-> "generating", persona |-> persona, request |-> request]

runConversationLoopDeaf(s, i) ==
    IF s.state.maxTurns # 0 /\ s.state.currentTurn >= s.state.maxTurns
    THEN endConversation(s, i)
    ELSE LET currentPersona == getCurrentPersona(s)
             s1 == emit(s, <<"thinking", PersonaName(currentPersona)>>)
         IN  [s1 EXCEPT !.calls[i] =
                 Calling(currentPersona,
                         generatePersonaResponse(s1, currentPersona))]
\* One pass from the while test to the generation call (the frame then
\* awaits the backend) or out of the loop to endConversation.
runConversationLoop(s, i) ==
    IF ~(s.isRunning /\ s.state.isActive) \/ shouldStopConversation(s)
    THEN endConversation(s, i)
    ELSE LET currentPersona == getCurrentPersona(s)
             s1 == emit(s, <<"thinking", PersonaName(currentPersona)>>)
         IN  [s1 EXCEPT !.calls[i] =
                 Calling(currentPersona,
                         generatePersonaResponse(s1, currentPersona))]

startFailedLate(s, i) ==
    LET msg == NewMessage(s.nextId, "User", "hi", now, NoTurn)
        s1 == [s EXCEPT !.isRunning = FALSE, !.state.isActive = FALSE,
                        !.history = addMessage(@, maxMessages, msg),
                        !.nextId = @ + 1]
        s2 == emit(s1, <<"error", "CONNECTION_FAILED", "none">>)
    IN  [s2 EXCEPT !.calls[i] = Frame("done", NoPersona)]
\* the catch of startConversation
startFailed(s, i) ==
    LET s1 == [s EXCEPT !.isRunning = FALSE, !.state.isActive = FALSE]
        s2 == emit(s1, <<"error", "CONNECTION_FAILED", "none">>)
    IN  [s2 EXCEPT !.calls[i] = Frame("done", NoPersona)]

\* if (options.maxTurns): the option is there and is not 0
Truthy(optMaxTurns) == optMaxTurns # NoMaxTurns /\ optMaxTurns # 0

setupConversationEmitsFirst(s, initialPrompt, topic, optMaxTurns) ==
    LET s1 == emit(s, <<"started">>)
        s2 == [s1 EXCEPT !.isRunning = TRUE, !.state.isActive = TRUE,
                         !.state.currentTurn = 0]
        s3 == IF topic # NoTopic
              THEN [s2 EXCEPT !.history = setTopic(@, topic)] ELSE s2
        s4 == IF Truthy(optMaxTurns)
              THEN [s3 EXCEPT !.state.maxTurns = optMaxTurns] ELSE s3
        msg == NewMessage(s4.nextId, "User", initialPrompt, now, NoTurn)
        s5 == [s4 EXCEPT !.history = addMessage(@, maxMessages, msg),
                         !.nextId = @ + 1]
    IN  emit(s5, <<"message", msg>>)
\* startConversation after a successful connectivity check, up to the loop
setupConversation(s, initialPrompt, topic, optMaxTurns) ==
    LET s1 == [s EXCEPT !.isRunning = TRUE, !.state.isActive = TRUE,
                        !.state.currentTurn = 0]
        s2 == IF topic # NoTopic
              THEN [s1 EXCEPT !.history = setTopic(@, topic)] ELSE s1
        s3 == IF Truthy(optMaxTurns)
              THEN [s2 EXCEPT !.state.maxTurns = optMaxTurns] ELSE s2
        s4 == emit(s3, <<"started">>)
        msg == NewMessage(s4.nextId, "User", initialPrompt, now, NoTurn)
        s5 == [s4 EXCEPT !.history = addMessage(@, maxMessages, msg),
                         !.nextId = @ + 1]
    IN  emit(s5, <<"message", msg>>)

turnSucceededCountsFirst(s, i, content) ==
    LET name == PersonaName(s.calls[i].persona)
        s1 == [s EXCEPT !.state.currentTurn = @ + 1]
        msg == NewMessage(s1.nextId, name, content, now, s1.state.currentTurn)
        s2 == [s1 EXCEPT !.history = addMessage(@, maxMessages, msg),
                         !.nextId = @ + 1]
        s3 == emit(s2, <<"message", msg>>)
        s4 == updateContext(switchPersona(s3))
    IN  [s4 EXCEPT !.calls[i] = Frame("sleeping", NoPersona)]
turnSucceededSignalsFirst(s, i, content) ==
    LET name == PersonaName(s.calls[i].persona)
        msg == NewMessage(s.nextId, name, content, now, s.state.currentTurn)
        s1 == emit(s, <<"message", msg>>)
        s2 == [s1 EXCEPT !.history = addMessage(@, maxMessages, msg),
                         !.nextId = @ + 1]
        s3 == [s2 EXCEPT !.state.currentTurn = @ + 1]
        s4 == updateContext(switchPersona(s3))
    IN  [s4 EXCEPT !.calls[i] = Frame("sleeping", NoPersona)]
\* the try block of the loop after a successful generation call
turnSucceeded(s, i, content) ==
    LET name == PersonaName(s.calls[i].persona)
        msg == NewMessage(s.nextId, name, content, now, s.state.currentTurn)
        s1 == [s EXCEPT !.history = addMessage(@, maxMessages, msg),
                        !.nextId = @ + 1]
        s2 == emit(s1, <<"message", msg>>)
        s3 == [s2 EXCEPT !.state.currentTurn = @ + 1]
        s4 == updateContext(switchPersona(s3))
    IN  [s4 EXCEPT !.calls[i] = Frame("sleeping", NoPersona)]

\* generatePersonaResponse wraps whatever the backend threw
WrapError(outcome) == <<"error", "GENERATION_FAILED", outcome>>

isCritical(err) == err[2] = "CRITICAL"

turnFailedBreaks(s, i, outcome) ==
    endConversation(emit(s, WrapError(outcome)), i)
turnFailedSwitches(s, i, outcome) ==
    LET err == WrapError(outcome)
        s1 == switchPersona(emit(s, err))
    IN  IF isCritical(err) THEN endConversation(s1, i)
        ELSE runConversationLoop(s1, i)
\* the catch block of the loop, then the next pass or the break
turnFailed(s, i, outcome) ==
    LET err == WrapError(outcome)
        s1 == emit(s, err)
    IN  IF isCritical(err) THEN endConversation(s1, i)
        ELSE runConversationLoop(s1, i)

----------------------------------------------------------------------------
(* Actions of the scheduler *)

Attempts(log) == Count(log, "thinking")
Stops == Count(signals, "stop")

NextCall == CHOOSE i \in 1..MaxCalls :
    calls[i].pc = "none" /\ \A j \in 1..(i - 1) : calls[j].pc # "none"

Pending(i) == calls[i].pc \in {"checking", "generating", "sleeping"}

\* A step is taken unless it would issue one generation call too many.
Step(s) ==
    /\ Attempts(s.signals) <= MaxAttempts
    /\ Commit(s)
    /\ result' = NoResult
    /\ UNCHANGED <<maxMessages, maxContextWindow, now, idsAtClear, personas>>

\* startConversation is called: it runs to the await of checkConnection
StartConversation(topic, optMaxTurns) ==
    /\ \E i \in 1..MaxCalls : calls[i].pc = "none"
    /\ calls' = [calls EXCEPT ![NextCall] =
                    [pc |-> "checking", persona |-> NoPersona,
                     topic |-> topic, optMaxTurns |-> optMaxTurns]]
    /\ result' = NoResult
    /\ UNCHANGED <<history, maxMessages, maxContextWindow, state, isRunning,
                   signals, now, nextId, idsAtClear, personas, seen>>

\* checkConnection resolves
ConnectionChecked(i, isConnected) ==
    /\ calls[i].pc = "checking"
    /\ Step(IF isConnected
            THEN runConversationLoop(
                     setupConversation(Cur, "hi", calls[i].topic,
                                       calls[i].optMaxTurns), i)
            ELSE startFailed(Cur, i))

\* generateResponse resolves or rejects
GenerationReturned(i, outcome) ==
    /\ calls[i].pc = "generating"
    /\ Step(IF outcome = "ok" THEN turnSucceeded(Cur, i, "hi")
            ELSE turnFailed(Cur, i, outcome))

\* the inter-turn sleep is over
SleepDone(i) ==
    /\ calls[i].pc = "sleeping"
    /\ Step(runConversationLoop(Cur, i))

StopConversation ==
    /\ Stops < MaxStops
    /\ isRunning' = FALSE
    /\ signals' = Append(signals, <<"stop">>)
    /\ seen' = Append(seen, Observed(Cur))
    /\ result' = NoResult
    /\ UNCHANGED <<history, maxMessages, maxContextWindow, state, calls,
                   now, nextId, idsAtClear, personas>>

InitFrame == [pc |-> "none", persona |-> NoPersona]

NewState(m) ==
    [isActive |-> FALSE, currentTurn |-> 0,
     history |-> NewHistory(NoTopic, 0),
     currentPersona |-> "primary", context |-> <<>>, maxTurns |-> m]

Init ==
    /\ now = 0
    /\ nextId = 1
    /\ maxMessages = ManagerMaxMessages
    /\ maxContextWindow = ConfigContextWindow
    /\ history = NewHistory(NoTopic, 0)
    /\ \E m \in 0..MaxTurnOpt : state = NewState(m)
    /\ isRunning = FALSE
    /\ calls = [i \in 1..MaxCalls |-> InitFrame]
    /\ signals = <<>>
    /\ idsAtClear = 0
    /\ result = NoResult
    /\ personas = NoRegistry
    /\ seen = <<>>

Resume ==
    \/ \E i \in 1..MaxCalls, ok \in BOOLEAN : ConnectionChecked(i, ok)
    \/ \E i \in 1..MaxCalls, o \in Outcomes : GenerationReturned(i, o)
    \/ \E i \in 1..MaxCalls : SleepDone(i)

Next ==
    \/ \E topic \in Topics, m \in 0..MaxTurnOpt : StartConversation(topic, m)
    \/ Resume
    \/ StopConversation

\* Any use of the scheduler, startConversation called at any time.
Spec == Init /\ [][Next]_vars

\* startConversation is called only when no earlier call is still running.
StartWhenIdle(topic, optMaxTurns) ==
    /\ \A i \in 1..MaxCalls : ~Pending(i)
    /\ StartConversation(topic, optMaxTurns)

NextSerial ==
    \/ \E topic \in Topics, m \in 0..MaxTurnOpt : StartWhenIdle(topic, m)
    \/ Resume
    \/ StopConversation

SpecSerial == Init /\ [][NextSerial]_vars

(* The scheduler with stop requests made during the connectivity check *)

\* stopConversation is called while a startConversation awaits its
\* connectivity check; the log notes where the request fell
StopWhileChecking ==
    /\ Stops < MaxStops
    /\ \E i \in 1..MaxCalls : calls[i].pc = "checking"
    /\ isRunning' = FALSE
    /\ signals' = Append(signals, <<"stop", "checking">>)
    /\ seen' = Append(seen, Observed(Cur))
    /\ result' = NoResult
    /\ UNCHANGED <<history, maxMessages, maxContextWindow, state, calls,
                   now, nextId, idsAtClear, personas>>

NextStops ==
    \/ NextSerial
    \/ StopWhileChecking

SpecStops == Init /\ [][NextStops]_vars

(* The scheduler with its pause and resume controls *)

pauseConversationHalts(s) == [s EXCEPT !.isRunning = FALSE]
\* pauseConversation writes a log line
pauseConversation(s) == s

\* resumeConversation writes a log line
resumeConversation(s) == s

\* a control is called; result records the call
Control(op, s) ==
    /\ Commit(s)
    /\ result' = [op |-> op]
    /\ UNCHANGED <<maxMessages, maxContextWindow, now, idsAtClear, personas>>

PauseConversation ==
    /\ result.op # "pauseConversation"
    /\ Control("pauseConversation", pauseConversation(Cur))

ResumeConversation ==
    /\ result.op # "resumeConversation"
    /\ Control("resumeConversation", resumeConversation(Cur))

NextControls ==
    \/ NextSerial
    \/ PauseConversation
    \/ ResumeConversation

SpecControls == Init /\ [][NextControls]_vars

(* The scheduler started with every maxTurns option: none, 0, or more *)

TurnOptions == {NoMaxTurns} \cup 0..MaxTurnOpt

NextTurns ==
    \/ \E topic \in Topics, m \in TurnOptions : StartWhenIdle(topic, m)
    \/ Resume
    \/ StopConversation

SpecTurns == Init /\ [][NextTurns]_vars

(* The scheduler in conversations where every call succeeds, followed for *)
(* more turns, under a small and a large context window *)

WindowSizes == {ConfigContextWindow, MaxLongWindow}

InitLongRun ==
    /\ now = 0
    /\ nextId = 1
    /\ maxMessages = ManagerMaxMessages
    /\ maxContextWindow \in WindowSizes
    /\ history = NewHistory(NoTopic, 0)
    /\ \E m \in 0..MaxTurnOpt : state = NewState(m)
    /\ isRunning = FALSE
    /\ calls = [i \in 1..MaxCalls |-> InitFrame]
    /\ signals = <<>>
    /\ idsAtClear = 0
    /\ result = NoResult
    /\ personas = NoRegistry
    /\ seen = <<>>

LongStep(s) ==
    /\ Attempts(s.signals) <= MaxLongRun
    /\ Commit(s)
    /\ result' = NoResult
    /\ UNCHANGED <<maxMessages, maxContextWindow, now, idsAtClear, personas>>

\* checkConnection resolves with true
Connected(i) ==
    /\ calls[i].pc = "checking"
    /\ LongStep(runConversationLoop(
                    setupConversation(Cur, "hi", calls[i].topic,
                                      calls[i].optMaxTurns), i))

\* generateResponse resolves
Replied(i) ==
    /\ calls[i].pc = "generating"
    /\ LongStep(turnSucceeded(Cur, i, "hi"))

\* the inter-turn sleep is over
Slept(i) ==
    /\ calls[i].pc = "sleeping"
    /\ LongStep(runConversationLoop(Cur, i))

NextLongRun ==
    \/ \E topic \in Topics, m \in 0..MaxTurnOpt : StartWhenIdle(topic, m)
    \/ \E i \in 1..MaxCalls : Connected(i)
    \/ \E i \in 1..MaxCalls : Replied(i)
    \/ \E i \in 1..MaxCalls : Slept(i)

SpecLongRun == InitLongRun /\ [][NextLongRun]_vars

(* The scheduler with its snapshot read: what getState returns, and what *)
(* the caller then does to the value it holds *)

\* { ...this.state }: a new object with the fields of this.state; the
\* context array and the history record in it are the scheduler's own
getState(st) == Returned("getState", st, {"context", "history"})

GetState ==
    /\ result' = getState(state)
    /\ UNCHANGED <<history, maxMessages, maxContextWindow, state, isRunning,
                   calls, signals, now, nextId, idsAtClear, personas, seen>>

\* what a caller does to a snapshot it holds: it assigns a field of the
\* snapshot, pushes a line on its context, or sets the topic of its history
SnapshotEdits == {"isActive", "context", "history"}

EditSnapshot(kind, snap) ==
    CASE kind = "isActive" -> [snap EXCEPT !.isActive = ~@]
      [] kind = "context" -> [snap EXCEPT !.context = Append(@, "x")]
      [] kind = "history" -> [snap EXCEPT !.history.topic = "x"]

\* the caller edits the snapshot getState gave it; an object in it that is
\* the scheduler's own changes in the scheduler too
MutateSnapshot(kind) ==
    /\ result.op = "getState"
    /\ kind = "context" =>
           \A k \in 1..Len(result.value.context) : result.value.context[k] # "x"
    /\ LET edited == EditSnapshot(kind, result.value)
       IN  /\ result' = Returned(kind, edited, result.aliases)
           /\ state' = IF kind \in result.aliases
                       THEN [state EXCEPT ![kind] = edited[kind]]
                       ELSE state
    /\ UNCHANGED <<history, maxMessages, maxContextWindow, isRunning, calls,
                   signals, now, nextId, idsAtClear, personas, seen>>

NextSnapshot ==
    \/ NextSerial
    \/ GetState
    \/ \E kind \in SnapshotEdits : MutateSnapshot(kind)

SpecSnapshot == Init /\ [][NextSnapshot]_vars

----------------------------------------------------------------------------
(* Actions of a ledger used on its own *)

InitLedger ==
    /\ now = 0
    /\ nextId = 1
    /\ maxMessages \in 0..MaxRetain
    /\ maxContextWindow = ConfigContextWindow
    /\ \E topic \in Topics : history = NewHistory(topic, 0)
    /\ state = NewState(0)
    /\ isRunning = FALSE
    /\ calls = [i \in 1..MaxCalls |-> InitFrame]
    /\ signals = <<>>
    /\ idsAtClear = 0
    /\ result = NoResult
    /\ personas = NoRegistry
    /\ seen = <<>>

Tick ==
    /\ now < MaxClock
    /\ now' = now + 1
    /\ result' = NoResult
    /\ UNCHANGED <<history, maxMessages, maxContextWindow, state, isRunning,
                   calls, signals, nextId, idsAtClear, personas, seen>>

AddMessage(personaName, content) ==
    /\ nextId <= MaxAppends
    /\ history' = addMessage(history, maxMessages,
                     NewMessage(nextId, personaName, content, now, NoTurn))
    /\ nextId' = nextId + 1
    /\ result' = NoResult
    /\ UNCHANGED <<maxMessages, maxContextWindow, state, isRunning, calls,
                   signals, now, idsAtClear, personas, seen>>

Clear ==
    /\ history' = clear(history, now)
    /\ idsAtClear' = nextId - 1
    /\ result' = NoResult
    /\ UNCHANGED <<maxMessages, maxContextWindow, state, isRunning, calls,
                   signals, now, nextId, personas, seen>>

HistoryEndConversation ==
    /\ history' = historyEndConversation(history, now)
    /\ result' = NoResult
    /\ UNCHANGED <<maxMessages, maxContextWindow, state, isRunning, calls,
                   signals, now, nextId, idsAtClear, personas, seen>>

SetTopic(topic) ==
    /\ history' = setTopic(history, topic)
    /\ result' = NoResult
    /\ UNCHANGED <<maxMessages, maxContextWindow, state, isRunning, calls,
                   signals, now, nextId, idsAtClear, personas, seen>>

NextLedger ==
    \/ \E p \in Speakers, c \in Contents : AddMessage(p, c)
    \/ Tick
    \/ Clear
    \/ HistoryEndConversation
    \/ \E topic \in Topics \ {NoTopic} : SetTopic(topic)

SpecLedger == InitLedger /\ [][NextLedger]_vars

(* The ledger with its exports: what a call returns *)

ExportToJSON ==
    LET r == exportToJSON(history, now)
    IN  /\ history' = r.history
        /\ result' = Returned("exportToJSON", r.out, {})
        /\ UNCHANGED <<maxMessages, maxContextWindow, state, isRunning,
                       calls, signals, now, nextId, idsAtClear, personas, seen>>

ExportToMarkdown ==
    LET r == exportToMarkdown(history, now)
    IN  /\ history' = r.history
        /\ result' = Returned("exportToMarkdown", r.out, {})
        /\ UNCHANGED <<maxMessages, maxContextWindow, state, isRunning,
                       calls, signals, now, nextId, idsAtClear, personas, seen>>

\* who says what in the runs with exports and queries
Utterances == {<<"Alice", "hi">>, <<"Bob", "">>}

NextLedgerReads ==
    \/ \E u \in Utterances : AddMessage(u[1], u[2])
    \/ Tick
    \/ Clear
    \/ HistoryEndConversation
    \/ \E topic \in Topics \ {NoTopic} : SetTopic(topic)
    \/ ExportToJSON
    \/ ExportToMarkdown

SpecLedgerReads == InitLedger /\ [][NextLedgerReads]_vars

(* The ledger with its queries for messages: what a call returns, and *)
(* what the caller then does to the value it holds *)

InitQueries ==
    /\ now = 0
    /\ nextId = 1
    /\ maxMessages \in 0..MaxRetain
    /\ maxContextWindow \in 0..MaxWindow
    /\ history = NewHistory(NoTopic, 0)
    /\ state = NewState(0)
    /\ isRunning = FALSE
    /\ calls = [i \in 1..MaxCalls |-> InitFrame]
    /\ signals = <<>>
    /\ idsAtClear = 0
    /\ result = NoResult
    /\ personas = NoRegistry
    /\ seen = <<>>

GetContextWindow ==
    /\ result' = Returned("getContextWindow",
                          getContextWindow(history, maxContextWindow), {})
    /\ UNCHANGED <<history, maxMessages, maxContextWindow, state, isRunning,
                   calls, signals, now, nextId, idsAtClear, personas, seen>>

GetLastMessages(count) ==
    /\ result' = [op |-> "getLastMessages", count |-> count,
                  value |-> getLastMessages(history, count),
                  aliases |-> {"elements"}]
    /\ UNCHANGED <<history, maxMessages, maxContextWindow, state, isRunning,
                   calls, signals, now, nextId, idsAtClear, personas, seen>>

GetMessages ==
    /\ result' = getMessagesCopy(history)
    /\ UNCHANGED <<history, maxMessages, maxContextWindow, state, isRunning,
                   calls, signals, now, nextId, idsAtClear, personas, seen>>

\* what a caller does to an array it holds: it adds, removes or replaces
\* elements of the array
ArrayEdits == {"push", "pop", "splice", "assign"}

\* or it writes a field of one of the objects in the array
ElementEdits == {"field"}

Foreign == NewMessage(0, "Eve", "x", NoTime, NoTurn)

EditArray(kind, arr) ==
    CASE kind = "push" -> Append(arr, Foreign)
      [] kind = "pop" -> SubSeq(arr, 1, Len(arr) - 1)
      [] kind = "splice" -> Tail(arr)
      [] kind = "assign" -> [arr EXCEPT ![1] = Foreign]
      [] kind = "field" -> [arr EXCEPT ![1].content = "x"]

\* the caller edits the array getMessages gave it: an array that is the
\* ledger's own changes the ledger with it, and so does a message object
\* that is the ledger's own
MutateResult(kind) ==
    /\ result.op = "getMessages"
    /\ kind = "push" \/ Len(result.value) > 0
    /\ LET edited == EditArray(kind, result.value)
       IN  /\ result' = Returned(kind, edited, result.aliases)
           /\ history' =
                 IF "messages" \in result.aliases
                 THEN [history EXCEPT !.messages = edited]
                 ELSE IF kind \in ElementEdits /\ "elements" \in result.aliases
                 THEN [history EXCEPT !.messages[1] = edited[1]]
                 ELSE history
    /\ UNCHANGED <<maxMessages, maxContextWindow, state, isRunning, calls,
                   signals, now, nextId, idsAtClear, personas, seen>>

NextQueries ==
    \/ \E u \in Utterances : AddMessage(u[1], u[2])
    \/ Clear
    \/ GetContextWindow
    \/ \E count \in -MaxCount..MaxCount : GetLastMessages(count)
    \/ GetMessages
    \/ \E kind \in ArrayEdits \cup ElementEdits : MutateResult(kind)

SpecQueries == InitQueries /\ [][NextQueries]_vars

----------------------------------------------------------------------------
(* The persona registry: PersonaManager *)

\* a string as the sequence of its characters
UpperCase == <<"A", "B", "C", "D", "E", "I", "L", "O", "V">>
LowerCase == <<"a", "b", "c", "d", "e", "i", "l", "o", "v">>

Lower(c) ==
    IF \E k \in 1..Len(UpperCase) : UpperCase[k] = c
    THEN LowerCase[CHOOSE k \in 1..Len(UpperCase) : UpperCase[k] = c]
    ELSE c

\* String.prototype.toLowerCase
toLowerCase(str) == [k \in 1..Len(str) |-> Lower(str[k])]

Undefined == [undefined |-> TRUE]

\* a thrown Error with its message
Thrown(message) == [thrown |-> message]

\* a persona configuration, by display name and origin
Persona(name, origin) == [name |-> name, personality |-> origin]

DEFAULT_PERSONAS ==
    << [key |-> <<"a", "l", "i", "c", "e">>,
        config |-> Persona("Alice", "default")],
       [key |-> <<"b", "o", "b">>, config |-> Persona("Bob", "default")],
       [key |-> <<"c", "h", "a", "r", "l", "i", "e">>,
        config |-> Persona("Charlie", "default")],
       [key |-> <<"d", "i", "a", "n", "a">>,
        config |-> Persona("Diana", "default")] >>

\* Map.prototype.set: a key already present keeps its place
MapSet(map, key, value) ==
    IF \E k \in 1..Len(map) : map[k].key = key
    THEN [k \in 1..Len(map) |->
             IF map[k].key = key THEN [key |-> key, config |-> value]
             ELSE map[k]]
    ELSE Append(map, [key |-> key, config |-> value])

MapHas(map, key) == \E k \in 1..Len(map) : map[k].key = key

MapGet(map, key) ==
    IF MapHas(map, key)
    THEN map[CHOOSE k \in 1..Len(map) : map[k].key = key].config
    ELSE Undefined

\* Map.prototype.delete
MapDelete(map, key) ==
    LET kept(slot) == slot.key # key
    IN  SelectSeq(map, kept)

RECURSIVE SetAll(_, _)
SetAll(map, entries) ==
    IF entries = <<>> THEN map
    ELSE SetAll(MapSet(map, entries[1].key, entries[1].config),
                Tail(entries))

\* the constructor: the defaults, then the custom entries under the keys
\* they come with
NewRegistry(customPersonas) ==
    SetAll(SetAll(<<>>, DEFAULT_PERSONAS), customPersonas)

getPersona(map, name) == MapGet(map, toLowerCase(name))

\* Array.from(this.personas.values()): a new array of the configuration
\* objects, each named here by the slot that holds it
getAllPersonas(map) == [k \in 1..Len(map) |-> k]

addPersona(map, key, persona) == MapSet(map, toLowerCase(key), persona)

\* the registry after the call, and the boolean returned
removePersona(map, key) ==
    [personas |-> MapDelete(map, toLowerCase(key)),
     out |-> MapHas(map, toLowerCase(key))]

\* the orders sort(() => Math.random() - 0.5) may leave n elements in
Shuffles(n) == Permutations(1..n)

\* what getRandomPersonaPair may return: the pairs, each with the slots
\* its two objects are held in
getRandomPersonaPairRepeats(map) ==
    IF Len(getAllPersonas(map)) < 2
    THEN {Thrown("At least 2 personas are required for a conversation")}
    ELSE {[slots |-> <<first[1], second[1]>>,
           pair |-> <<map[first[1]].config, map[second[1]].config>>] :
             first \in Shuffles(Len(map)), second \in Shuffles(Len(map))}
getRandomPersonaPair(map) ==
    LET allPersonas == getAllPersonas(map)
    IN  IF Len(allPersonas) < 2
        THEN {Thrown("At least 2 personas are required for a conversation")}
        ELSE {[slots |-> <<allPersonas[shuffled[1]], allPersonas[shuffled[2]]>>,
               pair |-> <<map[allPersonas[shuffled[1]]].config,
                          map[allPersonas[shuffled[2]]].config>>] :
                 shuffled \in Shuffles(Len(allPersonas))}

(* Actions of a registry used on its own *)

\* the keys callers use
InputKeys ==
    { <<"a", "l", "i", "c", "e">>, <<"A", "L", "I", "C", "E">>,
      <<"b", "o", "b">>, <<"c", "h", "a", "r", "l", "i", "e">>,
      <<"d", "i", "a", "n", "a">>, <<"e", "v", "e">>, <<"E", "v", "e">> }

\* the keys callers insert under
NewKeys == {<<"A", "L", "I", "C", "E">>, <<"E", "v", "e">>}

CustomPersonas == {Persona("Eve", "custom"), Persona("Alice", "custom")}

\* the customPersonas argument of the constructor: none, or one entry
CustomMaps ==
    {<<>>} \cup {<<[key |-> k, config |-> c]>> :
                    k \in NewKeys \cup {<<"e", "v", "e">>},
                    c \in CustomPersonas}

InitRegistry ==
    /\ now = 0
    /\ nextId = 1
    /\ maxMessages = ManagerMaxMessages
    /\ maxContextWindow = ConfigContextWindow
    /\ history = NewHistory(NoTopic, 0)
    /\ state = NewState(0)
    /\ isRunning = FALSE
    /\ calls = [i \in 1..MaxCalls |-> InitFrame]
    /\ signals = <<>>
    /\ idsAtClear = 0
    /\ seen = <<>>
    /\ result = NoResult
    /\ \E customPersonas \in CustomMaps :
           personas = NewRegistry(customPersonas)

GetPersona(name) ==
    /\ result' = [op |-> "getPersona", key |-> name,
                  value |-> getPersona(personas, name)]
    /\ UNCHANGED <<history, maxMessages, maxContextWindow, state, isRunning,
                   calls, signals, now, nextId, idsAtClear, personas, seen>>

AddPersona(key, persona) ==
    /\ personas' = addPersona(personas, key, persona)
    /\ result' = [op |-> "addPersona", key |-> key, value |-> persona]
    /\ UNCHANGED <<history, maxMessages, maxContextWindow, state, isRunning,
                   calls, signals, now, nextId, idsAtClear, seen>>

RemovePersona(key) ==
    LET r == removePersona(personas, key)
    IN  /\ personas' = r.personas
        /\ result' = [op |-> "removePersona", key |-> key, value |-> r.out]
        /\ UNCHANGED <<history, maxMessages, maxContextWindow, state,
                       isRunning, calls, signals, now, nextId, idsAtClear,
                       seen>>

GetRandomPersonaPair ==
    /\ \E r \in getRandomPersonaPair(personas) :
           result' = [op |-> "getRandomPersonaPair", value |-> r]
    /\ UNCHANGED <<history, maxMessages, maxContextWindow, state, isRunning,
                   calls, signals, now, nextId, idsAtClear, personas, seen>>

NextRegistry ==
    \/ \E name \in InputKeys : GetPersona(name)
    \/ \E key \in NewKeys, persona \in CustomPersonas :
           AddPersona(key, persona)
    \/ \E key \in InputKeys : RemovePersona(key)
    \/ GetRandomPersonaPair

SpecRegistry == InitRegistry /\ [][NextRegistry]_vars

(* validatePersona, applied to configurations of every shape *)

Whitespace == {" ", "\t"}

\* String.prototype.trim
RECURSIVE trimStart(_)
trimStart(str) ==
    IF str # <<>> /\ str[1] \in Whitespace THEN trimStart(Tail(str)) ELSE str

RECURSIVE trimEnd(_)
trimEnd(str) ==
    IF str # <<>> /\ str[Len(str)] \in Whitespace
    THEN trimEnd(SubSeq(str, 1, Len(str) - 1))
    ELSE str

trim(str) == trimEnd(trimStart(str))

\* a value that is a string, and one that is an array
Str(chars) == [str |-> chars]
Arr(items) == [array |-> items]

\* value?.trim()
OptionalTrim(value) ==
    IF value = Undefined THEN Undefined ELSE Str(trim(value.str))

\* !value, for a string or undefined
Not(value) == value = Undefined \/ value = Str(<<>>)

\* Array.isArray
IsArray(value) == "array" \in DOMAIN value

validatePersonaFirstOnly(persona) ==
    IF Not(OptionalTrim(persona.name))
    THEN <<"Persona name is required">>
    ELSE IF Not(OptionalTrim(persona.personality))
    THEN <<"Persona personality is required">>
    ELSE IF Not(OptionalTrim(persona.speakingStyle))
    THEN <<"Persona speaking style is required">>
    ELSE IF ~IsArray(persona.interests) \/ Len(persona.interests.array) = 0
    THEN <<"Persona must have at least one interest">>
    ELSE <<>>
validatePersona(persona) ==
    LET e0 == <<>>
        e1 == IF Not(OptionalTrim(persona.name))
              THEN Append(e0, "Persona name is required") ELSE e0
        e2 == IF Not(OptionalTrim(persona.personality))
              THEN Append(e1, "Persona personality is required") ELSE e1
        e3 == IF Not(OptionalTrim(persona.speakingStyle))
              THEN Append(e2, "Persona speaking style is required") ELSE e2
        e4 == IF ~IsArray(persona.interests)
                  \/ Len(persona.interests.array) = 0
              THEN Append(e3, "Persona must have at least one interest")
              ELSE e3
    IN  e4

\* the strings given for a field: of whitespace and other characters, or
\* the field is missing
FieldValues ==
    {Undefined} \cup
    {Str(chars) :
        chars \in UNION {[1..n -> Whitespace \cup {"x"}] : n \in 0..MaxFieldLen}}

InterestValues ==
    {Undefined, Str(<<"x">>), Arr(<<>>), Arr(<<"chess">>)}

PersonaInputs ==
    [name : FieldValues, personality : FieldValues,
     speakingStyle : FieldValues, interests : InterestValues]

InitValidate ==
    /\ now = 0
    /\ nextId = 1
    /\ maxMessages = ManagerMaxMessages
    /\ maxContextWindow = ConfigContextWindow
    /\ history = NewHistory(NoTopic, 0)
    /\ state = NewState(0)
    /\ isRunning = FALSE
    /\ calls = [i \in 1..MaxCalls |-> InitFrame]
    /\ signals = <<>>
    /\ idsAtClear = 0
    /\ seen = <<>>
    /\ personas = NewRegistry(<<>>)
    /\ \E persona \in PersonaInputs :
           result = [op |-> "input", persona |-> persona]

ValidatePersona ==
    /\ result.op = "input"
    /\ result' = [op |-> "validatePersona", persona |-> result.persona,
                  value |-> validatePersona(result.persona)]
    /\ UNCHANGED <<history, maxMessages, maxContextWindow, state, isRunning,
                   calls, signals, now, nextId, idsAtClear, personas, seen>>

NextValidate == ValidatePersona

SpecValidate == InitValidate /\ [][NextValidate]_vars

----------------------------------------------------------------------------
(* The analytics: ConversationAnalytics *)

\* Array.prototype.slice(start, end), negative indices counted from the end
SliceJS(arr, start, end) ==
    LET from == IF start < 0 THEN Max(Len(arr) + start, 0)
                ELSE Min(start, Len(arr))
        to == IF end < 0 THEN Max(Len(arr) + end, 0) ELSE Min(end, Len(arr))
    IN  SubSeq(arr, from + 1, to)

\* Array.prototype.join
RECURSIVE Join(_, _)
Join(strs, sep) ==
    IF strs = <<>> THEN ""
    ELSE IF Len(strs) = 1 THEN strs[1]
    ELSE strs[1] \o sep \o Join(Tail(strs), sep)

\* the elements of a sequence, each once, in the order they first occur
RECURSIVE Distinct(_)
Distinct(seq) ==
    IF seq = <<>> THEN <<>>
    ELSE LET rest == Distinct(SubSeq(seq, 1, Len(seq) - 1))
             last == seq[Len(seq)]
         IN  IF \E k \in 1..Len(rest) : rest[k] = last THEN rest
             ELSE Append(rest, last)

Occurrences(seq, x) == Cardinality({k \in 1..Len(seq) : seq[k] = x})

\* Array.prototype.sort by descending count; the sort is stable
RECURSIVE SortByCount(_, _)
SortByCount(keys, words) ==
    IF keys = <<>> THEN <<>>
    ELSE LET rest == SortByCount(SubSeq(keys, 1, Len(keys) - 1), words)
             last == keys[Len(keys)]
             ahead == {k \in 1..Len(rest) :
                          Occurrences(words, rest[k])
                              >= Occurrences(words, last)}
             at == IF ahead = {} THEN 0
                   ELSE CHOOSE k \in ahead : \A j \in ahead : j <= k
         IN  SubSeq(rest, 1, at) \o <<last>> \o SubSeq(rest, at + 1, Len(rest))

\* those of the words of commonWords that the messages use
commonWords == {"that", "this", "what", "think"}

\* the contents joined by a blank, lower-cased, stripped of punctuation and
\* split at whitespace: every content here is one lower-case word or empty
Tokens(contents) == contents

extractKeywords(contents) ==
    LET keep(word) == Len(word) > 3 /\ word \notin commonWords
        words == SelectSeq(Tokens(contents), keep)
    IN  SliceJS(SortByCount(Distinct(words), words), 0, 10)

\* a ConversationSummary; the id is a fresh one
Summary(type, content, messages, keyTopics, contributions) ==
    [type |-> type, content |-> content,
     messageRange |-> [start |-> 0, end |-> Len(messages) - 1],
     keyTopics |-> keyTopics, participantContributions |-> contributions]

generateBasicSummary(messages, type) ==
    LET names == Distinct([k \in 1..Len(messages) |-> messages[k].personaName])
        topics == extractKeywords(
                      [k \in 1..Len(messages) |-> messages[k].content])
        content == "Conversation summary: " \o ToString(Len(messages))
                       \o " messages exchanged between "
                       \o Join(names, " and ")
                       \o ". Key topics discussed: "
                       \o Join(SliceJS(topics, 0, 3), ", ") \o "."
        count(p) == Occurrences(
                        [k \in 1..Len(messages) |-> messages[k].personaName], p)
    IN  Summary(type, content, messages, SliceJS(topics, 0, 5),
                {<<names[k], "Contributed " \o ToString(count(names[k]))
                                 \o " messages">> : k \in 1..Len(names)})

\* what the backend does with one call: it rejects, or it resolves with a
\* content string
Rejects == [rejects |-> TRUE]
Resolves(content) == [content |-> content]

\* a property of a parsed value: undefined where there is none
Field(value, name) ==
    IF name \in DOMAIN value THEN value[name] ELSE Undefined

\* a || b
Or(a, b) == IF a = Undefined \/ a = Str("") THEN b ELSE a

JSONNull == [null |-> TRUE]

parseSummaryResponse(response, messages, type) ==
    LET parsed == JSONParse(response)
    IN  IF "thrown" \in DOMAIN parsed \/ parsed = JSONNull
        THEN generateBasicSummary(messages, type)
        ELSE Summary(type,
                     Or(Field(parsed, "summary"),
                        Str("Summary not available")).str,
                     messages,
                     IF IsArray(Field(parsed, "keyTopics"))
                     THEN Field(parsed, "keyTopics").array ELSE <<>>,
                     IF Field(parsed, "contributions") = Undefined THEN {}
                     ELSE Field(parsed, "contributions").object)

buildSummaryPrompt(conversationText, type, participants) ==
    [between |-> participants, conversationText |-> conversationText,
     instruction |-> type]

\* what generateSummary settles with, and the prompts it sent to the backend
generateSummaryNoCatch(messages, type, participants, reply) ==
    IF Len(messages) = 0
    THEN [out |-> Thrown("Cannot generate summary for empty message list"),
          asked |-> <<>>]
    ELSE LET conversationText ==
                 Join([k \in 1..Len(messages) |-> Render(messages[k])], "\n")
             summaryPrompt == buildSummaryPrompt(conversationText, type, participants)
         IN  [out |-> IF reply = Rejects THEN Thrown("AIClientError")
                      ELSE parseSummaryResponse(reply.content, messages, type),
              asked |-> <<summaryPrompt>>]
generateSummary(messages, type, participants, reply) ==
    IF Len(messages) = 0
    THEN [out |-> Thrown("Cannot generate summary for empty message list"),
          asked |-> <<>>]
    ELSE LET conversationText ==
                 Join([k \in 1..Len(messages) |-> Render(messages[k])], "\n")
             summaryPrompt == buildSummaryPrompt(conversationText, type, participants)
         IN  [out |-> IF reply = Rejects
                      THEN generateBasicSummary(messages, type)
                      ELSE parseSummaryResponse(reply.content, messages, type),
              asked |-> <<summaryPrompt>>]

compactContext(messages, keepRecentCount, participants, reply) ==
    IF Len(messages) <= keepRecentCount
    THEN [compactedContext |->
              Join([k \in 1..Len(messages) |-> Render(messages[k])], "\n"),
          summary |-> generateBasicSummary(messages, "context_compact"),
          asked |-> <<>>]
    ELSE LET messagesToSummarize == SliceJS(messages, 0, -keepRecentCount)
             recentMessages ==
                 SliceJS(messages, -keepRecentCount, Len(messages))
             recent == [k \in 1..Len(recentMessages) |->
                           Render(recentMessages[k])]
             r == generateSummary(messagesToSummarize, "context_compact",
                                  participants, reply)
         IN  IF "thrown" \in DOMAIN r.out
             THEN [compactedContext |-> Join(recent, "\n"),
                   summary |-> generateBasicSummary(messagesToSummarize,
                                                    "context_compact"),
                   asked |-> r.asked]
             ELSE [compactedContext |->
                       Join(<<"[Previous conversation summary: "
                                 \o r.out.content \o "]">> \o recent, "\n"),
                   summary |-> r.out,
                   asked |-> r.asked]

\* the keywords of a window of messages, as a set
KeywordsOf(window) ==
    LET keywords == extractKeywords(
                        [k \in 1..Len(window) |-> window[k].content])
    IN  {keywords[k] : k \in 1..Len(keywords)}

\* overlap / Math.max(prevKeywords.size, currKeywords.size, 1) < 0.3
LowOverlap(prevWindow, currWindow) ==
    LET prevKeywords == KeywordsOf(prevWindow)
        currKeywords == KeywordsOf(currWindow)
        overlap == Cardinality(prevKeywords \cap currKeywords)
    IN  10 * overlap
            < 3 * Max(Max(Cardinality(prevKeywords),
                          Cardinality(currKeywords)), 1)

windowSize == 2

\* the loop of countTopicChanges from index i on
RECURSIVE countTopicChangesFrom(_, _)
countTopicChangesFrom(messages, i) ==
    IF i < Len(messages) - windowSize
    THEN (IF LowOverlap(SliceJS(messages, i - windowSize, i),
                        SliceJS(messages, i, i + windowSize))
          THEN 1 ELSE 0)
             + countTopicChangesFrom(messages, i + windowSize)
    ELSE 0

countTopicChanges(messages) ==
    IF Len(messages) < 4 THEN 0
    ELSE countTopicChangesFrom(messages, windowSize)

\* generateStatistics: the counts and the conversation flow it returns
generateStatistics(messages) ==
    IF Len(messages) = 0
    THEN [totalMessages |-> 0, messagesByPersona |-> <<>>,
          conversationFlow |-> [turnsTaken |-> 0, topicChanges |-> 0]]
    ELSE LET names == {messages[k].personaName : k \in 1..Len(messages)}
         IN  [totalMessages |-> Len(messages),
              messagesByPersona |->
                  [p \in names |->
                      Cardinality({k \in 1..Len(messages) :
                                      messages[k].personaName = p})],
              conversationFlow |->
                  [turnsTaken |-> Len(messages),
                   topicChanges |-> countTopicChanges(messages)]]

(* Actions of the analytics *)

\* who says what in the slices
Remarks == {<<"Alice", "chess">>, <<"Bob", "">>, <<"Bob", "tide">>}

Slices ==
    UNION {[1..n -> {NewMessage(0, u[1], u[2], 0, NoTurn) : u \in Remarks}] :
              n \in 0..MaxSlice}

SummaryTypes == {"periodic", "context_compact", "final"}

\* the values a JSON reply may spell
ParsedReplies ==
    {JSONNull, [number |-> 42]} \cup
    {[f \in fields |-> CASE f = "summary" -> Str("They talked.")
                          [] f = "keyTopics" -> Arr(<<"chess">>)
                          [] f = "contributions" ->
                                 [object |-> {<<"Alice", "spoke">>}]] :
        fields \in SUBSET {"summary", "keyTopics", "contributions"}} \cup
    {[summary |-> Str(""), keyTopics |-> Str("chess")]}

Replies ==
    {Rejects, Resolves([garbage |-> TRUE])}
        \cup {Resolves([text |-> v]) : v \in ParsedReplies}

ThePersonas == <<"Alice", "Bob">>

InitAnalytics ==
    /\ now = 0
    /\ nextId = 1
    /\ maxMessages = ManagerMaxMessages
    /\ maxContextWindow = ConfigContextWindow
    /\ history = NewHistory(NoTopic, 0)
    /\ state = NewState(0)
    /\ isRunning = FALSE
    /\ calls = [i \in 1..MaxCalls |-> InitFrame]
    /\ signals = <<>>
    /\ idsAtClear = 0
    /\ seen = <<>>
    /\ personas = NoRegistry
    /\ \E messages \in Slices, type \in SummaryTypes, keep \in 0..MaxKeep :
           result = [op |-> "input", messages |-> messages, type |-> type,
                     keepRecentCount |-> keep]

\* one call of generateSummary, from the call to the settled promise
GenerateSummary(reply) ==
    /\ result.op = "input"
    /\ LET r == generateSummary(result.messages, result.type, ThePersonas,
                                reply)
       IN  result' = [op |-> "generateSummary", messages |-> result.messages,
                      type |-> result.type, reply |-> reply,
                      value |-> r.out, asked |-> r.asked]
    /\ UNCHANGED <<history, maxMessages, maxContextWindow, state, isRunning,
                   calls, signals, now, nextId, idsAtClear, personas, seen>>

\* one call of compactContext, from the call to the settled promise
CompactContext(reply) ==
    /\ result.op = "input"
    /\ result.type = "context_compact"
    /\ LET r == compactContext(result.messages, result.keepRecentCount,
                               ThePersonas, reply)
       IN  result' = [op |-> "compactContext", messages |-> result.messages,
                      keepRecentCount |-> result.keepRecentCount,
                      reply |-> reply, value |-> r]
    /\ UNCHANGED <<history, maxMessages, maxContextWindow, state, isRunning,
                   calls, signals, now, nextId, idsAtClear, personas, seen>>

NextAnalytics ==
    \/ \E reply \in Replies : GenerateSummary(reply)
    \/ \E reply \in Replies : CompactContext(reply)

SpecAnalytics == InitAnalytics /\ [][NextAnalytics]_vars

(* generateStatistics, applied to longer slices *)

Flows ==
    UNION {[1..n -> {NewMessage(0, u[1], u[2], 0, NoTurn) : u \in Remarks}] :
              n \in 0..MaxFlow}

InitStatistics ==
    /\ now = 0
    /\ nextId = 1
    /\ maxMessages = ManagerMaxMessages
    /\ maxContextWindow = ConfigContextWindow
    /\ history = NewHistory(NoTopic, 0)
    /\ state = NewState(0)
    /\ isRunning = FALSE
    /\ calls = [i \in 1..MaxCalls |-> InitFrame]
    /\ signals = <<>>
    /\ idsAtClear = 0
    /\ seen = <<>>
    /\ personas = NoRegistry
    /\ \E messages \in Flows : result = [op |-> "input", messages |-> messages]

GenerateStatistics ==
    /\ result.op = "input"
    /\ result' = [op |-> "generateStatistics", messages |-> result.messages,
                  value |-> generateStatistics(result.messages)]
    /\ UNCHANGED <<history, maxMessages, maxContextWindow, state, isRunning,
                   calls, signals, now, nextId, idsAtClear, personas, seen>>

NextStatistics == GenerateStatistics

SpecStatistics == InitStatistics /\ [][NextStatistics]_vars

----------------------------------------------------------------------------
(* The duration formatters of the ledger and of the terminal formatter *)

formatterFormatDurationTotalMinutes(ms) ==
    LET seconds == ms \div 1000
        minutes == seconds \div 60
        hours == minutes \div 60
    IN  IF hours > 0
        THEN ToString(hours) \o "h " \o ToString(minutes) \o "m "
                 \o ToString(seconds % 60) \o "s"
        ELSE IF minutes > 0
        THEN ToString(minutes) \o "m " \o ToString(seconds % 60) \o "s"
        ELSE ToString(seconds) \o "s"
\* ConversationFormatter.formatDuration
formatterFormatDuration(ms) ==
    LET seconds == ms \div 1000
        minutes == seconds \div 60
        hours == minutes \div 60
    IN  IF hours > 0
        THEN ToString(hours) \o "h " \o ToString(minutes % 60) \o "m "
                 \o ToString(seconds % 60) \o "s"
        ELSE IF minutes > 0
        THEN ToString(minutes) \o "m " \o ToString(seconds % 60) \o "s"
        ELSE ToString(seconds) \o "s"

\* durations in milliseconds: whole hours, minutes and seconds at the ends
\* and in the middle of their ranges, with and without a part of a second
Durations ==
    {h * 3600000 + m * 60000 + s * 1000 + f :
        h \in 0..MaxHours, m \in {0, 1, 30, 59}, s \in {0, 1, 30, 59},
        f \in {0, 999}}

InitDurations ==
    /\ now = 0
    /\ nextId = 1
    /\ maxMessages = ManagerMaxMessages
    /\ maxContextWindow = ConfigContextWindow
    /\ history = NewHistory(NoTopic, 0)
    /\ state = NewState(0)
    /\ isRunning = FALSE
    /\ calls = [i \in 1..MaxCalls |-> InitFrame]
    /\ signals = <<>>
    /\ idsAtClear = 0
    /\ seen = <<>>
    /\ personas = NoRegistry
    /\ \E ms \in Durations : result = [op |-> "input", ms |-> ms]

\* the ledger formats the duration for its Markdown document
LedgerFormatDuration ==
    /\ result.op = "input"
    /\ result' = [op |-> "ledger", ms |-> result.ms,
                  value |-> formatDuration(result.ms)]
    /\ UNCHANGED <<history, maxMessages, maxContextWindow, state, isRunning,
                   calls, signals, now, nextId, idsAtClear, personas, seen>>

\* the terminal formatter formats the duration of an ended conversation
FormatterFormatDuration ==
    /\ result.op = "input"
    /\ result' = [op |-> "formatter", ms |-> result.ms,
                  value |-> formatterFormatDuration(result.ms)]
    /\ UNCHANGED <<history, maxMessages, maxContextWindow, state, isRunning,
                   calls, signals, now, nextId, idsAtClear, personas, seen>>

NextDurations ==
    \/ LedgerFormatDuration
    \/ FormatterFormatDuration

SpecDurations == InitDurations /\ [][NextDurations]_vars

----------------------------------------------------------------------------
(* Properties of the scheduler *)

Last(seq) == seq[Len(seq)]

\* the signals a step adds to the log
Emitted == SubSeq(signals', Len(signals) + 1, Len(signals'))

\* exactly one startConversation call has been made on the scheduler
SingleCall == calls[1].pc # "none" /\ calls[2].pc = "none"

\* no generation call failed, no connectivity check failed, no stop request
Undisturbed == Count(signals, "error") = 0 /\ Count(signals, "stop") = 0

\* C1: a fresh scheduler started once with maxTurns = n, whose backend
\* succeeds on every call and which is not asked to stop, never runs more
\* than n turns, can always take its next step, and when its call returns it has completed exactly n turns,
\* the ledger is ended and holds n + 1 messages in total, the scheduler is
\* inactive, and the one 'ended' signal emitted carries totalMessages = n + 1.
C1_EndsAfterMaxTurns ==
    (SingleCall /\ Undisturbed /\ state.maxTurns # 0) =>
        /\ state.currentTurn <= state.maxTurns
        /\ Attempts(signals) <= state.maxTurns
        /\ calls[1].pc # "done" => ENABLED Resume
        /\ calls[1].pc = "done" =>
              /\ state.currentTurn = state.maxTurns
              /\ Attempts(signals) = state.maxTurns
              /\ ~state.isActive
              /\ history.endTime # NoTime
              /\ history.totalMessages = state.maxTurns + 1
              /\ Count(signals, "message") = state.maxTurns + 1
              /\ Count(signals, "ended") = 1
              /\ Last(signals) = <<"ended", state.maxTurns + 1>>

C1_Witness ==
    /\ SingleCall /\ Undisturbed
    /\ calls[1].pc = "done"
    /\ state.maxTurns = 2
    /\ history.totalMessages = 3
    /\ Last(signals) = <<"ended", 3>>

\* only failures: every generation call made so far was rejected
AllFailed ==
    /\ Count(signals, "message") <= 1
    /\ \A k \in 1..Len(signals) :
          signals[k][1] = "error" => signals[k][2] = "GENERATION_FAILED"

\* C2: with maxTurns = n and a backend that fails on every call, and no
\* stop request, the scheduler makes at most n attempts, and once it has
\* reported n failures the conversation is Ended.
C2_FailingBackendEnds ==
    (SingleCall /\ AllFailed /\ Count(signals, "stop") = 0
        /\ state.maxTurns # 0 /\ Count(signals, "started") = 1) =>
        /\ Attempts(signals) <= state.maxTurns
        /\ Count(signals, "error") >= state.maxTurns =>
              calls[1].pc = "done" /\ ~state.isActive

\* the last of 'started' and 'ended' before position k is 'started'
ActiveAt(k) ==
    \E j \in 1..(k - 1) :
        /\ signals[j][1] = "started"
        /\ \A l \in (j + 1)..(k - 1) : signals[l][1] # "ended"

\* what follows position k in the log, up to the next 'ended'
UntilEnded(k) ==
    LET after == SubSeq(signals, k + 1, Len(signals))
        ends == {l \in 1..Len(after) : after[l][1] = "ended"}
        stop == IF ends = {} THEN Len(after) + 1
                ELSE CHOOSE l \in ends : \A l2 \in ends : l <= l2
    IN  SubSeq(after, 1, stop - 1)

EndedAfter(k) == \E l \in (k + 1)..Len(signals) : signals[l][1] = "ended"

\* C3: after a stop request made while the conversation is Active, and
\* until the conversation is Ended, no turn is started (no 'thinking'
\* signal, so no generation call), at most the one turn in flight adds its
\* message or reports its failure, and as long as 'ended' has not been
\* emitted the loop is still there, and able to step, to observe the
\* request; 'ended' is then emitted once.
C3_StopIsCooperative ==
    \A k \in 1..Len(signals) :
        (signals[k][1] = "stop" /\ ActiveAt(k)) =>
            LET seg == UntilEnded(k)
            IN  /\ Count(seg, "thinking") = 0
                /\ Count(seg, "started") = 0
                /\ Count(seg, "message") + Count(seg, "error") <= 1
                /\ IF EndedAfter(k)
                   THEN \/ Count(signals, "started") > 1
                        \/ /\ ~state.isActive
                           /\ Count(signals, "ended") = 1
                   ELSE /\ state.isActive
                        /\ \E i \in 1..MaxCalls :
                              calls[i].pc \in {"generating", "sleeping"}
                        /\ ENABLED Resume

\* a stop request that found a generation call in flight: the message of
\* that call was appended afterwards and the conversation then ended
C3_Witness ==
    \E k \in 1..Len(signals) :
        /\ k + 2 <= Len(signals)
        /\ signals[k][1] = "stop" /\ ActiveAt(k)
        /\ signals[k - 1][1] = "thinking"
        /\ signals[k + 1][1] = "message"
        /\ signals[k + 2][1] = "ended"

\* the step in which frame i returns from a failed connectivity check
CheckFailedStep(i) == calls[i].pc = "checking" /\ calls'[i].pc = "done"

\* C4: a startConversation whose connectivity check fails on an Idle
\* scheduler leaves it Idle: isActive is false before and after, the ledger
\* (messages, totalMessages, topic, endTime) and the scheduler state
\* (maxTurns, currentTurn) are unchanged, and the only signal emitted is one
\* 'error' reporting the connection failure.
C4_FailedCheckStaysIdle ==
    [][\A i \in 1..MaxCalls :
          CheckFailedStep(i) =>
              /\ ~state.isActive /\ ~state'.isActive
              /\ isRunning' = isRunning
              /\ history' = history
              /\ state' = state
              /\ Emitted = << <<"error", "CONNECTION_FAILED", "none">> >>]_vars

\* a start has failed its check after an earlier conversation on the
\* scheduler had ended
C4_Witness ==
    /\ calls[2].pc = "done"
    /\ Len(signals) > 0
    /\ Last(signals) = <<"error", "CONNECTION_FAILED", "none">>
    /\ Count(signals, "ended") = 1
    /\ history.totalMessages = 2

Generated(msg) == msg.personaName # "User"

\* C5: in the ledger two generated messages that follow each other in one
\* conversation are by different personas, each of them the primary or the
\* secondary one, and in the first conversation of a scheduler they run
\* primary, secondary, primary, ...; generation failures and stop requests
\* do not change that.
C5_StrictAlternation ==
    LET msgs == history.messages
    IN  /\ \A k \in 1..Len(msgs) :
              Generated(msgs[k]) =>
                  msgs[k].personaName \in
                      {PersonaName("primary"), PersonaName("secondary")}
        /\ \A k \in 1..(Len(msgs) - 1) :
              (Generated(msgs[k]) /\ Generated(msgs[k + 1])) =>
                  msgs[k].personaName # msgs[k + 1].personaName
        /\ \A k \in 2..Len(msgs) :
              (\A j \in 2..k : Generated(msgs[j])) =>
                  msgs[k].personaName =
                      PersonaName(IF k % 2 = 0 THEN "primary" ELSE "secondary")

\* a conversation in which a turn failed and was made again, and a stop
\* was requested, with two generated messages in the ledger
C5_Witness ==
    /\ Len(history.messages) = 3
    /\ history.messages[2].personaName = PersonaName("primary")
    /\ history.messages[3].personaName = PersonaName("secondary")
    /\ Count(signals, "error") >= 1

\* C6: the generated message that follows an initial prompt in the ledger
\* is by the primary persona, also in a conversation started after an
\* earlier one on the same scheduler has ended.
C6_FirstSpeakerIsPrimary ==
    LET msgs == history.messages
    IN  \A k \in 1..(Len(msgs) - 1) :
            (msgs[k].personaName = "User" /\ Generated(msgs[k + 1])) =>
                msgs[k + 1].personaName = PersonaName("primary")

\* C7: at most one generation call is outstanding and at most one turn loop
\* is running on the scheduler, whenever startConversation is called.
C7_OneLoopOneCall ==
    /\ Cardinality({i \in 1..MaxCalls : calls[i].pc = "generating"}) <= 1
    /\ Cardinality({i \in 1..MaxCalls :
                       calls[i].pc \in {"generating", "sleeping"}}) <= 1

\* the step in which frame i handles a failed generation call
FailureStep(i, tag) ==
    /\ calls[i].pc = "generating"
    /\ Len(signals') > Len(signals)
    /\ signals'[Len(signals) + 1] = <<"error", "GENERATION_FAILED", tag>>

C9_CriticalFailureEnds ==
    [][\A i \in 1..MaxCalls :
          FailureStep(i, "CRITICAL") =>
              /\ Count(Emitted, "thinking") = 0
              /\ Count(Emitted, "ended") = 1
              /\ ~state'.isActive
              /\ history'.endTime # NoTime
              /\ calls'[i].pc = "done"]_vars

----------------------------------------------------------------------------
(* Properties of the ledger *)

\* the addMessage calls made since construction or the last clear: each
\* takes one fresh id
Appended == nextId - 1 - idsAtClear

\* C10: after N addMessage calls on a ledger with retention limit M,
\* totalMessages = N and the ledger retains min(N, M) messages, whoever
\* spoke and whatever the contents, the empty content included.
C10_TotalAndRetained ==
    /\ getTotalMessages(history) = Appended
    /\ Len(getMessages(history)) = Min(Appended, maxMessages)

\* more messages appended than retained, an empty one among the retained
C10_Witness ==
    /\ maxMessages = 2
    /\ Appended = 4
    /\ Len(history.messages) = 2
    /\ history.messages[1].content = ""

\* the retained messages are the newest ones, oldest first: their ids are
\* the last ids handed out, in the order they were handed out
NewestInOrder ==
    LET k == Min(Appended, maxMessages)
    IN  /\ Len(history.messages) = k
        /\ \A j \in 1..k : history.messages[j].id = nextId - k + j - 1

\* a step that changes the retained messages and leaves some: all but the
\* last are the newest of the messages retained before, untouched and in
\* their order, and the last is the message just appended
AppendsAtTheEnd ==
    LET old == history.messages
        new == history'.messages
        kept == Len(new) - 1
    IN  (new # old /\ new # <<>>) =>
            /\ kept <= Len(old)
            /\ SubSeq(new, 1, kept) = SubSeq(old, Len(old) - kept + 1, Len(old))
            /\ new[Len(new)].id = nextId
            /\ new[Len(new)].timestamp = now

\* C11: with retention limit M and N messages appended, the retained
\* messages are exactly the last min(N, M) appended, in the order they were
\* appended; trimming removes only from the oldest end.
C11_RetainsNewestInOrder ==
    []NewestInOrder /\ [][AppendsAtTheEnd]_vars

\* after a clear, three appends to a ledger that retains two: the first of
\* the three is gone, the other two remain in order
C11_Witness ==
    /\ maxMessages = 2
    /\ idsAtClear = 1
    /\ Appended = 3
    /\ history.messages[1].id = 3
    /\ history.messages[2].id = 4
    /\ history.messages[1].personaName # history.messages[2].personaName

\* C12: after any sequence of addMessage, clear, endConversation, setTopic
\* and export calls, totalMessages is at least the number of retained
\* messages.
C12_TotalAtLeastRetained ==
    getTotalMessages(history) >= Len(getMessages(history))

\* an export of a ledger that was cleared, filled past its limit and ended
C12_Witness ==
    /\ result.op = "exportToJSON"
    /\ idsAtClear > 0
    /\ history.endTime # NoTime
    /\ history.topic = "art"
    /\ history.totalMessages > Len(history.messages)
    /\ Len(history.messages) > 0

\* C13: under a clock that never goes back, a set endTime is never before
\* startTime and the reported duration is never negative.
C13_EndNotBeforeStart ==
    /\ history.endTime # NoTime => history.endTime >= history.startTime
    /\ getDuration(history, now) >= 0

\* a ledger cleared at a later time than it was built, ended later still
C13_Witness ==
    /\ history.startTime = 1
    /\ history.endTime = 2
    /\ getDuration(history, now) = 1

\* C14 as stated: endTime is unset until endConversation is called, and
\* once set no call but clear changes it.
C14_EndTimeSetOnce ==
    [][/\ (history.endTime = NoTime /\ history'.endTime # NoTime)
            => HistoryEndConversation
       /\ (history.endTime # NoTime /\ ~Clear)
            => history'.endTime = history.endTime]_vars

\* C14: endTime is unset until endConversation is called; once set, adding
\* messages, setting the topic and exporting leave it as it is, clear
\* unsets it, and a later endConversation replaces it with the time of
\* that call, which is never earlier.
C14_EndTimeSetByEndOnly ==
    [][/\ (history.endTime = NoTime /\ history'.endTime # NoTime)
            => HistoryEndConversation
       /\ (history.endTime # NoTime /\ ~Clear /\ ~HistoryEndConversation)
            => history'.endTime = history.endTime
       /\ (history.endTime # NoTime /\ HistoryEndConversation)
            => (history'.endTime = now /\ now >= history.endTime)
       /\ Clear => history'.endTime = NoTime]_vars

\* an ended ledger ended again at a later time, then appended to and
\* exported
C14_Witness ==
    /\ history.endTime = 1
    /\ now = 2
    /\ history.startTime = 0
    /\ Len(history.messages) > 0
    /\ history.messages[Len(history.messages)].timestamp = 2
    /\ result.op = "exportToMarkdown"

\* C15: getContextWindow() has length min(contextWindowSize, retained
\* count), at most contextWindowSize, and is the rendering
\* "speakerName: content" of exactly the last contextWindowSize retained
\* messages, the oldest of them first.
C15_ContextWindowIsLatestRendered ==
    result.op = "getContextWindow" =>
        LET msgs == getMessages(history)
            n == Min(maxContextWindow, Len(msgs))
            out == result.value
        IN  /\ Len(out) = n
            /\ Len(out) <= maxContextWindow
            /\ \A k \in 1..n :
                   out[k] = msgs[Len(msgs) - n + k].personaName \o ": "
                                \o msgs[Len(msgs) - n + k].content

\* two retained messages, a window of one: the older is left out and the
\* newer, whose content is empty, is rendered
C15_Witness ==
    /\ result.op = "getContextWindow"
    /\ maxContextWindow = 1
    /\ Len(history.messages) = 2
    /\ history.messages[1].personaName = "Alice"
    /\ result.value = <<"Bob: ">>

\* C16: getLastMessages(count) returns the last min(max(count, 0),
\* retained count) retained messages in ledger order: nothing for count 0
\* and for every negative count, and what getMessages() returns for every
\* count that is at least the retained count.
C16_LastMessagesClamped ==
    result.op = "getLastMessages" =>
        LET msgs == getMessages(history)
            n == Min(Max(result.count, 0), Len(msgs))
        IN  /\ Len(result.value) = n
            /\ \A k \in 1..n : result.value[k] = msgs[Len(msgs) - n + k]
            /\ result.count <= 0 => result.value = <<>>
            /\ result.count >= Len(msgs) => result.value = msgs

\* a negative count asked of a ledger that retains two messages
C16_Witness ==
    /\ result.op = "getLastMessages"
    /\ result.count < 0
    /\ Len(history.messages) = 2
    /\ result.value = <<>>

\* C17: exportToJSON() leaves the ledger as it was: messages,
\* totalMessages, startTime and topic are unchanged, and on a ledger that
\* has not been ended the document carries an endTime while the stored
\* endTime stays unset.
C17_ExportLeavesLedger ==
    [][result'.op = "exportToJSON" =>
          /\ history'.messages = history.messages
          /\ history'.totalMessages = history.totalMessages
          /\ history'.startTime = history.startTime
          /\ history'.topic = history.topic
          /\ history.endTime = NoTime =>
                 /\ "endTime" \in DOMAIN JSONParse(result'.value)
                 /\ JSONParse(result'.value).endTime = Iso(now)
                 /\ history'.endTime = NoTime]_vars

\* the export, made at a later time than the ledger was built, of a ledger
\* that holds messages and has not been ended
C17_Witness ==
    /\ result.op = "exportToJSON"
    /\ history.endTime = NoTime
    /\ Len(history.messages) > 0
    /\ now > history.startTime
    /\ JSONParse(result.value).endTime = Iso(now)

\* C18: parsing what exportToJSON() returned recovers totalMessages equal
\* to the number of messages appended, the current topic, and a messages
\* array as long as the retained messages, with their speakers and
\* contents in ledger order.
C18_ExportRoundTrips ==
    result.op = "exportToJSON" =>
        LET doc == JSONParse(result.value)
            msgs == getMessages(history)
        IN  /\ doc.totalMessages = Appended
            /\ IF history.topic = NoTopic THEN "topic" \notin DOMAIN doc
               ELSE doc.topic = history.topic
            /\ Len(doc.messages) = Len(msgs)
            /\ \A k \in 1..Len(msgs) :
                   /\ doc.messages[k].personaName = msgs[k].personaName
                   /\ doc.messages[k].content = msgs[k].content

\* the export of a ledger with a topic that was appended to more often than
\* it retains
C18_Witness ==
    /\ result.op = "exportToJSON"
    /\ history.topic = "art"
    /\ Appended = 3
    /\ Len(history.messages) = 2
    /\ JSONParse(result.value).messages[2].personaName = "Bob"
    /\ JSONParse(result.value).messages[1].timestamp = Iso(history.messages[1].timestamp)

\* C19: getMessages() returns a sequence of its own: adding, removing or
\* replacing elements of the returned sequence changes nothing in the
\* ledger, so later reads return what they did.
C19_ReturnedSequenceIsOwn ==
    [][(result.op = "getMessages" /\ result'.op \in ArrayEdits) =>
          /\ history' = history
          /\ getMessagesCopy(history').value = result.value
          /\ result'.value # result.value]_vars

\* the caller pushed an element on the sequence it got from a ledger of two
\* messages, which still has two
C19_Witness ==
    /\ result.op = "push"
    /\ Len(result.value) = 3
    /\ Len(getMessages(history)) = 2
    /\ history.totalMessages = 2

\* C20: getState() returns a copy of its own: no edit of the returned
\* value, its context sequence and its history record included, changes the
\* scheduler's state or what a later getState() returns.
C20_SnapshotIsOwn ==
    [][(result.op = "getState" /\ result'.op \in SnapshotEdits) =>
          /\ state' = state
          /\ getState(state').value = result.value]_vars

----------------------------------------------------------------------------
(* Properties of the persona registry *)

\* two keys that differ at most in letter case
SameButCase(k1, k2) == toLowerCase(k1) = toLowerCase(k2)

\* C21: key matching is case-insensitive for every entry, however it was
\* inserted: getPersona(K') returns the entry held under K and
\* removePersona(K') removes it whenever K' and K differ only in letter
\* case.
C21_KeysMatchWhateverTheCase ==
    /\ result.op = "getPersona" =>
           \A k \in 1..Len(personas) :
               SameButCase(personas[k].key, result.key) =>
                   result.value = personas[k].config
    /\ result.op = "removePersona" =>
           \A k \in 1..Len(personas) :
               ~SameButCase(personas[k].key, result.key)

\* what getRandomPersonaPair returned, for the registry it was called on
PairFromDistinctSlots ==
    result.op = "getRandomPersonaPair" =>
        LET n == Len(personas)
            r == result.value
        IN  IF n < 2 THEN "thrown" \in DOMAIN r
            ELSE /\ "pair" \in DOMAIN r
                 /\ r.slots[1] \in 1..n
                 /\ r.slots[2] \in 1..n
                 /\ r.slots[1] # r.slots[2]
                 /\ r.pair[1] = personas[r.slots[1]].config
                 /\ r.pair[2] = personas[r.slots[2]].config
                 /\ n = 2 => {r.slots[1], r.slots[2]} = {1, 2}

\* C22: getRandomPersonaPair() on a registry of at least two entries
\* returns two entries held in distinct slots and leaves the registry as
\* it was; with exactly two entries it returns both, in either order; with
\* fewer than two it fails instead of returning a pair.
C22_PairFromDistinctSlots ==
    /\ []PairFromDistinctSlots
    /\ [][result'.op = "getRandomPersonaPair" => personas' = personas]_vars

\* a registry of two entries with the same display name: both are
\* returned, the second slot first
C22_Witness ==
    /\ result.op = "getRandomPersonaPair"
    /\ Len(personas) = 2
    /\ personas[1].config.name = personas[2].config.name
    /\ result.value.slots = <<2, 1>>
    /\ result.value.pair[1] # result.value.pair[2]

\* a field that is missing, empty or made of whitespace only
Blank(value) ==
    value = Undefined
        \/ \A k \in 1..Len(value.str) : value.str[k] \in Whitespace

\* the checks of validatePersona that fail on a persona
FailedChecks(persona) ==
    {f \in {"name", "personality", "speakingStyle"} : Blank(persona[f])}
    \cup (IF "array" \in DOMAIN persona.interests
                 /\ persona.interests.array # <<>>
          THEN {} ELSE {"interests"})

ViolationOf(check) ==
    CASE check = "name" -> "Persona name is required"
      [] check = "personality" -> "Persona personality is required"
      [] check = "speakingStyle" -> "Persona speaking style is required"
      [] check = "interests" -> "Persona must have at least one interest"

----------------------------------------------------------------------------
(* Properties of the signals of the scheduler *)

\* the signals the step emits, as positions of the log after the step
EmittedAt == (Len(signals) + 1)..Len(signals')

\* C26: 'started' is emitted first, the 'message' of the initial prompt right
\* after it; the prompt is the message appended between the two, its author
\* is "User", no 'thinking' of the conversation comes before them, and the
\* listeners of both see isActive = TRUE and currentTurn = 0.
C26_StartedThenPrompt ==
    [][\A k \in EmittedAt :
          signals'[k][1] = "started" =>
              /\ k = Len(signals) + 1
              /\ k + 1 <= Len(signals')
              /\ signals'[k + 1][1] = "message"
              /\ signals'[k + 1][2].personaName = "User"
              /\ signals'[k + 1][2].turn = NoTurn
              /\ signals'[k + 1][2] \in
                     {history'.messages[j] : j \in 1..Len(history'.messages)}
              /\ seen'[k + 1].totalMessages = seen'[k].totalMessages + 1
              /\ seen'[k].totalMessages = getTotalMessages(history)
              /\ \A j \in {k, k + 1} :
                     seen'[j].isActive /\ seen'[j].currentTurn = 0]_vars

C26_Witness ==
    /\ Len(signals) >= 3
    /\ signals[1][1] = "started"
    /\ signals[2][1] = "message"
    /\ signals[2][2].personaName = "User"
    /\ signals[3][1] = "thinking"
    /\ seen[1].isActive /\ seen[2].isActive
    /\ seen[1].currentTurn = 0 /\ seen[2].currentTurn = 0
    /\ seen[1].totalMessages = 0 /\ seen[2].totalMessages = 1

\* C27: the listeners of 'ended' see isActive = FALSE and the ledger's
\* endTime set, and the signal carries the ledger's count of appended
\* messages at that moment.
C27_EndedAfterTheEnd ==
    [][\A k \in EmittedAt :
          signals'[k][1] = "ended" =>
              /\ ~seen'[k].isActive
              /\ seen'[k].endTime # NoTime
              /\ signals'[k][2] = seen'[k].totalMessages
              /\ signals'[k][2] = nextId' - 1]_vars

C27_Witness ==
    \E k \in 1..Len(signals) :
        /\ signals[k][1] = "ended"
        /\ signals[k][2] = 3
        /\ ~seen[k].isActive
        /\ seen[k].endTime = now
        /\ seen[k].totalMessages = 3

\* the messages generated in the current conversation: those appended after
\* its initial prompt
GeneratedSinceStart ==
    LET prompts == {k \in 1..Len(history.messages) :
                       history.messages[k].personaName = "User"}
        last == IF prompts = {} THEN 0
                ELSE CHOOSE k \in prompts : \A j \in prompts : j <= k
    IN  SubSeq(history.messages, last + 1, Len(history.messages))

\* C28: currentTurn is the number of messages generated since the start, and
\* the k-th of them (k = 0, 1, 2, ...) carries turn k, whether or not
\* attempts failed in between.
C28_TurnsCountGenerated ==
    /\ state.currentTurn = Len(GeneratedSinceStart)
    /\ \A k \in 1..Len(GeneratedSinceStart) : GeneratedSinceStart[k].turn = k - 1

C28_Witness ==
    /\ Count(signals, "error") = 1
    /\ Count(signals, "started") = 1
    /\ state.currentTurn = 2
    /\ Len(GeneratedSinceStart) = 2
    /\ GeneratedSinceStart[1].turn = 0 /\ GeneratedSinceStart[2].turn = 1
    /\ \E i \in 1..MaxCalls : calls[i].pc = "sleeping"

\* the last n elements of a sequence, all of them if it has fewer
LastOf(seq, n) == SubSeq(seq, Len(seq) - Min(n, Len(seq)) + 1, Len(seq))

\* the ledger's messages as the context window shows them
Lines == [k \in 1..Len(history.messages) |->
             history.messages[k].personaName \o ": "
                 \o history.messages[k].content]

\* the prompt quotes the last entries of the window, under the topic if
\* there is one
Quoted(prompt, name) ==
    LET head == IF history.topic = NoTopic THEN ""
                ELSE "The conversation topic is: " \o history.topic \o "\n\n"
        body == JoinLines(LastOf(LastOf(Lines, maxContextWindow),
                                 PromptEntries))
    IN  prompt = head \o "Recent conversation:\n" \o body
                      \o "\n\nPlease respond as " \o name
                      \o ", continuing this conversation naturally. "
                      \o "Stay true to your character and speaking style."

\* C29: while a generation call is awaited, the context it was given is the
\* rendering of the last maxContextWindow messages of the ledger, the initial
\* prompt and the messages of the earlier turns among them, and its prompt
\* quotes the last 10 entries of that context and no other.
C29_ContextIsTheWindow ==
    \A i \in 1..MaxCalls :
        calls[i].pc = "generating" =>
            /\ calls[i].request.context = LastOf(Lines, maxContextWindow)
            /\ Quoted(calls[i].request.prompt, PersonaName(calls[i].persona))
            /\ (state.currentTurn = 0 /\ maxContextWindow > 0) =>
                   calls[i].request.context[Len(calls[i].request.context)]
                       = "User: hi"

C29_Witness ==
    \E i \in 1..MaxCalls :
        /\ calls[i].pc = "generating"
        /\ Len(calls[i].request.context) = PromptEntries + 1
        /\ calls[i].request.context[1] = "User: hi"
        /\ calls[i].request.prompt
               = "Recent conversation:\n"
                     \o JoinLines(SubSeq(calls[i].request.context, 2,
                                         PromptEntries + 1))
                     \o "\n\nPlease respond as Alice, continuing this conversation naturally. Stay true to your character and speaking style."

\* the maxTurns a call was started with, while its connectivity check is
\* pending
Requested(i) ==
    IF calls[i].pc = "checking" THEN calls[i].optMaxTurns ELSE NoMaxTurns

\* C30: a turn is started only while currentTurn is below the maxTurns that
\* is set, whether the start options set it (0 included) or it was set
\* before.
C30_NoTurnAtOrBeyondMaxTurns ==
    [][\A i \in 1..MaxCalls :
          (Pending(i) /\ calls'[i].pc = "generating"
              /\ Attempts(signals') > Attempts(signals)) =>
              /\ Requested(i) # NoMaxTurns =>
                     state'.currentTurn < Requested(i)
              /\ state'.maxTurns # 0 =>
                     state'.currentTurn < state'.maxTurns]_vars

----------------------------------------------------------------------------
(* Properties of the analytics *)

\* the summary made without the backend
LocalSummary == generateBasicSummary(result.messages, result.type)

\* the reply spells the JSON the prompt asks for: an object with a summary
\* string, a keyTopics array and a contributions object
ExpectedJSON(reply) ==
    /\ "content" \in DOMAIN reply
    /\ "text" \in DOMAIN reply.content
    /\ {"summary", "keyTopics", "contributions"} \subseteq
           DOMAIN reply.content.text
    /\ IsArray(reply.content.text.keyTopics)

\* the reply is no JSON text at all
NoJSON(reply) ==
    "content" \in DOMAIN reply /\ "text" \notin DOMAIN reply.content

EmptySliceOnly ==
    ("thrown" \in DOMAIN result.value) <=> result.messages = <<>>

CoversSlice ==
    result.messages # <<>> =>
        result.value.messageRange
            = [start |-> 0, end |-> Len(result.messages) - 1]

Rendered(messages) ==
    Join([k \in 1..Len(messages) |-> Render(messages[k])], "\n")

\* C25: compactContext summarizes exactly the messages before the last
\* keepRecentCount ones and returns the bracketed summary followed by the
\* rendering of exactly the last keepRecentCount messages; a slice of at most
\* keepRecentCount messages is returned rendered, with no backend call.
C25_SummaryThenRecentTail ==
    result.op = "compactContext" =>
        LET n == Len(result.messages)
            keep == result.keepRecentCount
            r == result.value
        IN  IF n > keep
            THEN /\ Len(r.asked) = 1
                 /\ r.asked[1].conversationText
                        = Rendered(SubSeq(result.messages, 1, n - keep))
                 /\ r.summary.messageRange
                        = [start |-> 0, end |-> n - keep - 1]
                 /\ r.compactedContext
                        = Join(<<"[Previous conversation summary: "
                                    \o r.summary.content \o "]">>
                                   \o [k \in 1..keep |->
                                         Render(result.messages[n - keep + k])],
                               "\n")
            ELSE /\ r.asked = <<>>
                 /\ r.compactedContext = Rendered(result.messages)

----------------------------------------------------------------------------
(* Properties of the controls of the scheduler *)

\* what the scheduler and its ledger hold, and what they have emitted
Program ==
    <<history, maxMessages, maxContextWindow, state, isRunning, calls,
      signals, nextId>>

\* C31: a call of pauseConversation or resumeConversation, in any state and
\* after any other call, leaves the scheduler, its suspended calls, the
\* ledger and the signals emitted as they were.
C31_PauseAndResumeChangeNothing ==
    [][result'.op \in {"pauseConversation", "resumeConversation"}
          => UNCHANGED Program]_vars

C31_Witness ==
    /\ result.op = "resumeConversation"
    /\ \E i \in 1..MaxCalls : calls[i].pc = "generating"
    /\ isRunning /\ state.isActive
    /\ Count(signals, "message") = 2

----------------------------------------------------------------------------
(* Properties of the ledger: clear and the statistics *)

\* C32: clear leaves no retained message, totalMessages 0, endTime unset and
\* startTime at the time of the call, and keeps the topic and both limits;
\* every append, those after a clear too, adds one to totalMessages.
C32_ClearStartsAfresh ==
    [][/\ Clear =>
              /\ history'.messages = <<>>
              /\ history'.totalMessages = 0
              /\ history'.endTime = NoTime
              /\ history'.startTime = now
              /\ history'.topic = history.topic
              /\ maxMessages' = maxMessages
              /\ maxContextWindow' = maxContextWindow
       /\ nextId' = nextId + 1 =>
              history'.totalMessages = history.totalMessages + 1]_vars

C32_Witness ==
    /\ idsAtClear = 2
    /\ nextId = 4
    /\ history.totalMessages = 1
    /\ Len(history.messages) = 1
    /\ history.startTime = 1
    /\ history.endTime = NoTime
    /\ history.topic = "art"

\* the sum of the values of a record of counts
RECURSIVE SumOfCounts(_)
SumOfCounts(counts) ==
    IF DOMAIN counts = {} THEN 0
    ELSE LET p == CHOOSE q \in DOMAIN counts : TRUE
         IN  counts[p]
                 + SumOfCounts([q \in DOMAIN counts \ {p} |-> counts[q]])

\* the messages the retention limit has dropped since the last clear
Trimmed == Max(Appended - maxMessages, 0)

\* C33: the counts by persona of getMessageStats add up to the number of
\* retained messages, its totalMessages is the number of messages appended
\* since construction or the last clear, and the two differ by the number
\* of messages trimmed since then.
C33_StatsCountRetainedAndAppended ==
    LET stats == getMessageStats(history, now)
    IN  /\ SumOfCounts(stats.messagesByPersona)
               = Len(getMessages(history))
        /\ \A p \in DOMAIN stats.messagesByPersona :
               stats.messagesByPersona[p] > 0
        /\ stats.totalMessages = Appended
        /\ stats.totalMessages - SumOfCounts(stats.messagesByPersona)
               = Trimmed

C33_Witness ==
    LET stats == getMessageStats(history, now)
    IN  /\ stats.totalMessages = 3
        /\ stats.messagesByPersona = [Alice |-> 1, Bob |-> 1]
        /\ maxMessages = 2
        /\ idsAtClear = 1

----------------------------------------------------------------------------
(* Properties of the statistics *)

\* the complete windows of two messages of a slice: window j holds the
\* messages 2j and 2j + 1, counted from 0
CompleteWindows(messages) == Len(messages) \div windowSize

WindowAt(messages, j) ==
    SubSeq(messages, windowSize * j + 1, windowSize * j + windowSize)

\* C34: topicChanges is the number of pairs of successive complete windows
\* of two messages whose keyword overlap is below 0.3, the last pair
\* included; a slice of fewer than 4 messages gives 0.
C34_EveryPairOfWindowsCompared ==
    result.op = "generateStatistics" =>
        result.value.conversationFlow.topicChanges
            = Cardinality(
                  {j \in 0..(CompleteWindows(result.messages) - 2) :
                      LowOverlap(WindowAt(result.messages, j),
                                 WindowAt(result.messages, j + 1))})

----------------------------------------------------------------------------
(* Properties of the duration formatters *)

\* the string to be produced for a duration
DurationText(ms) ==
    LET H == ms \div 3600000
        M == (ms \div 60000) % 60
        S == (ms \div 1000) % 60
    IN  IF ms < 60000 THEN ToString(S) \o "s"
        ELSE IF ms < 3600000 THEN ToString(M) \o "m " \o ToString(S) \o "s"
        ELSE ToString(H) \o "h " \o ToString(M) \o "m " \o ToString(S)
                 \o "s"

\* C35: for every duration the ledger's formatter and the terminal
\* formatter's give the same string: seconds alone under a minute, minutes
\* and seconds under an hour, hours, minutes and seconds otherwise.
C35_FormattersAgree ==
    result.op \in {"ledger", "formatter"} =>
        /\ result.value = DurationText(result.ms)
        /\ formatDuration(result.ms) = formatterFormatDuration(result.ms)
        /\ DurationText(30000) = "30s"
        /\ DurationText(90000) = "1m 30s"
        /\ DurationText(3661000) = "1h 1m 1s"

C35_Witness ==
    /\ result.op = "formatter"
    /\ result.ms = 3661000
    /\ result.value = "1h 1m 1s"
    /\ formatDuration(result.ms) = "1h 1m 1s"

----------------------------------------------------------------------------
(* Properties of stop requests and of the end of a conversation *)

\* the 'message' signals of a stretch of the log that carry a generated
\* message
GeneratedIn(seg) ==
    Cardinality({l \in 1..Len(seg) :
                    seg[l][1] = "message" /\ seg[l][2].personaName # "User"})

\* C36: after a stop request made while the connectivity check of a start
\* is pending, the conversation of that start appends at most one generated
\* message, and starts at most one turn, before it ends.
C36_StopDuringCheckIsKept ==
    \A k \in 1..Len(signals) :
        (signals[k][1] = "stop" /\ Len(signals[k]) = 2) =>
            /\ GeneratedIn(UntilEnded(k)) <= 1
            /\ Count(UntilEnded(k), "thinking") <= 1

\* no conversation is under way: every 'started' has had its 'ended'
Quiet == ~ActiveAt(Len(signals) + 1)

\* the step emits 'started'
Starts ==
    \E k \in (Len(signals) + 1)..Len(signals') : signals'[k][1] = "started"

\* the step is a call of stopConversation
StopRequested ==
    /\ Len(signals') = Len(signals) + 1
    /\ signals'[Len(signals')][1] = "stop"

\* C37: every 'ended' closes a conversation that was started and not yet
\* ended, so a start has one 'ended' at most, and has had it once no call
\* is left running; 'thinking' and 'message' are emitted during
\* conversations only; while no conversation is under way isActive is
\* false, no generation call is awaited, and no step but one that starts a
\* conversation appends to the ledger or changes isActive; a stop request
\* made then changes nothing.
C37_EndedIsQuiescent ==
    /\ [](/\ \A k \in 1..Len(signals) :
                 (signals[k][1] \in {"ended", "thinking", "message"})
                     => ActiveAt(k)
          /\ ((\A i \in 1..MaxCalls : ~Pending(i)) => Quiet)
          /\ (Quiet =>
                 (/\ ~state.isActive
                  /\ \A i \in 1..MaxCalls :
                         calls[i].pc \notin {"generating", "sleeping"})))
    /\ [][/\ ((Quiet /\ ~Starts) =>
                 (/\ history' = history
                  /\ nextId' = nextId
                  /\ ~state'.isActive
                  /\ Count(signals', "thinking") = Count(signals, "thinking")
                  /\ Count(signals', "message") = Count(signals, "message")
                  /\ Count(signals', "ended") = Count(signals, "ended")))
           /\ ((Quiet /\ StopRequested) =>
                 UNCHANGED <<history, state, isRunning, calls, nextId>>)]_vars

\* a conversation has ended, a stop request was made afterwards, and a
\* second conversation is under way
C37_Witness ==
    \E k \in 1..Len(signals) :
        /\ k + 2 <= Len(signals)
        /\ signals[k][1] = "ended"
        /\ signals[k + 1][1] = "stop"
        /\ signals[k + 2][1] = "started"
        /\ Count(signals, "ended") = 1
        /\ state.isActive

----------------------------------------------------------------------------
(* Properties of the 'message' signals *)

\* the positions of the 'message' signals, and the messages they carry, in
\* the order of emission
MessagePositions == {k \in 1..Len(signals) : signals[k][1] = "message"}

RECURSIVE Carried(_)
Carried(n) ==
    IF n = 0 THEN <<>>
    ELSE IF signals[n][1] = "message"
    THEN Append(Carried(n - 1), signals[n][2])
    ELSE Carried(n - 1)

\* the signal emitted last before position k, stop requests left aside
Before(k) ==
    LET earlier == {j \in 1..(k - 1) : signals[j][1] # "stop"}
    IN  IF earlier = {} THEN <<"none">>
        ELSE signals[CHOOSE j \in earlier : \A l \in earlier : l <= j]

\* C38: the messages carried by the 'message' signals are, in order, the
\* messages appended to the ledger; when a 'message' signal is emitted its
\* message is the last one appended and every earlier append has had its
\* signal; the signal of a generated message follows a 'thinking' signal
\* that names its speaker, the signal of an initial prompt follows
\* 'started'.
C38_SignalsMirrorTheLedger ==
    [](/\ Carried(Len(signals)) = history.messages
       /\ \A k \in MessagePositions :
              /\ seen[k].totalMessages
                     = Cardinality({j \in MessagePositions : j <= k})
              /\ IF signals[k][2].personaName = "User"
                 THEN Before(k) = <<"started">>
                 ELSE Before(k) = <<"thinking", signals[k][2].personaName>>)

C38_Witness ==
    /\ Len(history.messages) = 3
    /\ Carried(Len(signals)) = history.messages
    /\ history.messages[1].personaName = "User"
    /\ history.messages[2].personaName = "Alice"
    /\ history.messages[3].personaName = "Bob"
    /\ Count(signals, "error") = 1
    /\ Count(signals, "thinking") = 3

----------------------------------------------------------------------------
(* Properties of failed attempts *)

\* the step in which the generation call of frame i fails
AttemptFailed(i) ==
    /\ calls[i].pc = "generating"
    /\ calls'[i].pc # "sleeping"
    /\ Count(signals', "error") = Count(signals, "error") + 1

\* C39: the step that handles a failed generation call leaves currentTurn,
\* the current persona and the cached context and history alone and
\* appends nothing; unless the conversation ends in that step, the same
\* step emits 'thinking' for the same persona and issues the next call,
\* without a sleep in between.
C39_FailureKeepsTurnAndSpeaker ==
    [][\A i \in 1..MaxCalls :
          AttemptFailed(i) =>
              /\ state'.currentTurn = state.currentTurn
              /\ state'.currentPersona = state.currentPersona
              /\ state'.context = state.context
              /\ state'.history = state.history
              /\ history'.messages = history.messages
              /\ \/ /\ calls'[i].pc = "done"
                    /\ signals'[Len(signals')][1] = "ended"
                 \/ /\ calls'[i].pc = "generating"
                    /\ calls'[i].persona = calls[i].persona
                    /\ calls'[i].persona = state.currentPersona
                    /\ Len(signals') = Len(signals) + 2
                    /\ signals'[Len(signals')]
                           = <<"thinking", PersonaName(calls[i].persona)>>]_vars

C39_Witness ==
    /\ Len(signals) >= 3
    /\ signals[Len(signals) - 2] = <<"thinking", "Bob">>
    /\ signals[Len(signals) - 1][1] = "error"
    /\ signals[Len(signals)] = <<"thinking", "Bob">>
    /\ state.currentTurn = 1
    /\ state.currentPersona = "secondary"
    /\ \E i \in 1..MaxCalls :
           calls[i].pc = "generating" /\ calls[i].persona = "secondary"

====
